---- MODULE Spec2Model ----
(***************************************************************************)
(* Journey-Weaver: the navigation state machine of App (handleNext,        *)
(* handlePrev, handleSelectLandmark, the quiz gate and its QuizModal, the  *)
(* transition timers), the upload handler (handleFileChange) and the tour  *)
(* loader (loadData), and the quiz parsers called on their own.            *)
(*                                                                         *)
(* Conventions.                                                            *)
(*  - Indices (activeIndex, sidebarIndex, currentQ, ...) are 0-based as in *)
(*    the code; At(s, i) reads a 0-based position of a TLA+ sequence.      *)
(*  - JavaScript values are records [t, s, n, a, o]; a landmark's quiz is  *)
(*    such a value (undefined, or an array of question objects).           *)
(*  - A handler runs when its control is rendered and not disabled: the    *)
(*    Sidebar buttons, the Map markers, the QuizModal buttons, the file    *)
(*    input.  The QuizModal overlay disables none of the controls under it.*)
(*  - Time is kept in milliseconds as the delay left on each pending      *)
(*    timer.  No handler reads the clock, so time advances from one timer  *)
(*    deadline to the next; handlers run before or after any callback.     *)
(***************************************************************************)
EXTENDS Integers, Sequences, FiniteSets, TLC

VARIABLES
    landmarks,        \* App state `landmarks` (the Tour)
    baseLandmarks,    \* App state `baseLandmarks`
    isLoading,        \* App state `isLoading`
    activeIndex,      \* App state `activeIndex` (map camera target)
    sidebarIndex,     \* App state `sidebarIndex` (sidebar content)
    isTransitioning,  \* App state `isTransitioning`
    quizModalInfo,    \* App state `quizModalInfo`; onComplete is kept as the
                      \* values its closure captured (capIdx, capLen)
    timers,           \* pending setTimeout callbacks, in creation order
    quizModal,        \* QuizModal's own state
    crashed,          \* a render threw (no error boundary): the app is gone
    alertShown,       \* the message of the alert() dialog on screen ("" if none)
    loadPc,           \* loadData: position in the async function
    loadedBase,       \* loadData local `loadedBaseLandmarks` (<< >> once loadData returned)
    env,              \* the environment loadData reads (query string, remote
                      \* response, dataset API, localStorage 'locations')
    parser,           \* a call of one of the quiz parsers on its own: the
                      \* function, its argument and, once it returned, its result
    modalInfo,        \* App state `modalInfo` (the add-landmark dialog)
    storeAdded        \* the landmarks this session appended to localStorage
                      \* 'locations', behind the item found at page load

vars == << landmarks, baseLandmarks, isLoading, activeIndex, sidebarIndex,
           isTransitioning, quizModalInfo, timers, quizModal, crashed,
           alertShown, loadPc, loadedBase, env, parser, modalInfo, storeAdded >>

navVars == << activeIndex, sidebarIndex, isTransitioning >>

dialogVars == << modalInfo, storeAdded >>

----------------------------------------------------------------------------
(* Generic helpers *)

At(s, i) == s[i + 1]

InRange(s, i) == i >= 0 /\ i < Len(s)

RECURSIVE FlatMapIdx(_, _, _)
\* items.map((item, index) => ...).filter(x => x !== null), from position k
\* on: F returns << >> for null and << x >> for a kept element
FlatMapIdx(s, F(_, _), k) ==
    IF k >= Len(s) THEN << >>
    ELSE F(At(s, k), k) \o FlatMapIdx(s, F, k + 1)

\* Array.prototype.findIndex: first 0-based position satisfying P, or -1
FindIndex(s, P(_)) ==
    IF \E k \in 0 .. Len(s) - 1 : P(At(s, k))
    THEN CHOOSE k \in 0 .. Len(s) - 1 :
             P(At(s, k)) /\ \A j \in 0 .. k - 1 : ~P(At(s, j))
    ELSE -1

----------------------------------------------------------------------------
(* JavaScript values.  Every value is a record of the same shape:           *)
(*   t : typeof-like tag ("undefined", "null", "string", "number",          *)
(*       "boolean", "array", "object")                                      *)
(*   s : the string (for a number: "" when finite, else "NaN"/"Infinity")   *)
(*   n : the number (booleans: 1 / 0)                                       *)
(*   a : the elements of an array                                           *)
(*   o : the own properties of a plain object, << key, value >> pairs in    *)
(*       insertion order                                                    *)

JUndef     == [t |-> "undefined", s |-> "", n |-> 0, a |-> << >>, o |-> << >>]
JNull      == [t |-> "null", s |-> "", n |-> 0, a |-> << >>, o |-> << >>]
JStr(x)    == [t |-> "string", s |-> x, n |-> 0, a |-> << >>, o |-> << >>]
JNum(k)    == [t |-> "number", s |-> "", n |-> k, a |-> << >>, o |-> << >>]
JNaN       == [t |-> "number", s |-> "NaN", n |-> 0, a |-> << >>, o |-> << >>]
JInfinity  == [t |-> "number", s |-> "Infinity", n |-> 0, a |-> << >>, o |-> << >>]
JBool(b)   == [t |-> "boolean", s |-> "", n |-> IF b THEN 1 ELSE 0, a |-> << >>, o |-> << >>]
JArr(xs)   == [t |-> "array", s |-> "", n |-> 0, a |-> xs, o |-> << >>]
JObj(kvs)  == [t |-> "object", s |-> "", n |-> 0, a |-> << >>, o |-> kvs]

\* typeof v
TypeOf(v) ==
    IF v.t \in {"null", "array", "object"} THEN "object" ELSE v.t

IsArray(v) == v.t = "array"

\* String.prototype.trim on the strings the model uses: the ones written
\* with surrounding blanks, and the blank string
Trim(x) ==
    CASE x = " "      -> ""
      [] x = " True " -> "True"
      [] x = " A "    -> "A"
      [] OTHER        -> x

\* the string as it is, in place of its lower-case form
KeepCase(x) == x

\* String.prototype.toLowerCase on the strings the model uses
ToLowerCase(x) ==
    CASE x = "True"            -> "true"
      [] x = "TRUE"            -> "true"
      [] x = "False"           -> "false"
      [] x = "FALSE"           -> "false"
      [] x = " True "          -> " true "
      [] x = "TRUE_FALSE"      -> "true_false"
      [] x = "True_False"      -> "true_false"
      [] x = "Multiple_Choice" -> "multiple_choice"
      [] x = "A"               -> "a"
      [] x = " A "             -> " a "
      [] x = "B"               -> "b"
      [] OTHER                 -> x

\* Number(x) for a string x: the numeric strings the model uses; a blank
\* string converts to 0; any other string is NaN
StringToNumber(x) ==
    CASE x = "30"    -> JNum(30)
      [] x = "35"    -> JNum(35)
      [] Trim(x) = "" -> JNum(0)
      [] OTHER       -> JNaN

\* !!v
Truthy(v) ==
    CASE v.t = "undefined" -> FALSE
      [] v.t = "null"      -> FALSE
      [] v.t = "string"    -> v.s # ""
      [] v.t = "number"    -> IF v.s = "" THEN v.n # 0 ELSE v.s = "Infinity"
      [] v.t = "boolean"   -> v.n = 1
      [] OTHER             -> TRUE

\* a || b
Or(a, b) == IF Truthy(a) THEN a ELSE b

\* String(v) for the values the model converts
JsString(v) ==
    CASE v.t = "string"    -> v.s
      [] v.t = "undefined" -> "undefined"
      [] v.t = "null"      -> "null"
      [] v.t = "boolean"   -> IF v.n = 1 THEN "true" ELSE "false"
      [] v.t = "number"    -> IF v.s # "" THEN v.s ELSE ToString(v.n)
      [] v.t = "array"     -> IF Len(v.a) = 0 THEN "" ELSE "[array]"
      [] OTHER             -> "[object Object]"

\* Number(v)
ToNumber(v) ==
    CASE v.t = "number"    -> v
      [] v.t = "string"    -> StringToNumber(v.s)
      [] v.t = "null"      -> JNum(0)
      [] v.t = "boolean"   -> JNum(v.n)
      [] v.t = "array"     -> IF Len(v.a) = 0 THEN JNum(0)
                              ELSE IF Len(v.a) = 1 /\ v.a[1].t \in {"number", "string"}
                                   THEN IF v.a[1].t = "number" THEN v.a[1]
                                        ELSE StringToNumber(v.a[1].s)
                                   ELSE JNaN
      [] OTHER             -> JNaN

\* isFinite(x) for a number x
IsFinite(v) == v.t = "number" /\ v.s = ""

\* obj[key] for a plain object (undefined when the key is absent)
Prop(v, key) ==
    IF v.t = "object" /\ \E i \in 1 .. Len(v.o) : v.o[i][1] = key
    THEN LET i == CHOOSE j \in 1 .. Len(v.o) : v.o[j][1] = key IN v.o[i][2]
    ELSE JUndef

\* acc[key] = val on an object's property list (insertion order is kept)
SetProp(kvs, key, val) ==
    IF \E i \in 1 .. Len(kvs) : kvs[i][1] = key
    THEN [i \in 1 .. Len(kvs) |-> IF kvs[i][1] = key THEN << key, val >> ELSE kvs[i]]
    ELSE Append(kvs, << key, val >>)

----------------------------------------------------------------------------
(* Key Normalizer and the legacy quiz parser (App) *)

\* key.toLowerCase(), the whole key lower-cased, on the keys the model uses
LowerWhole(key) ==
    CASE key = "Question"  -> "question"
      [] key = "Type"      -> "type"
      [] key = "Options"   -> "options"
      [] key = "Text"      -> "text"
      [] key = "IsCorrect" -> "iscorrect"
      [] key = "isCorrect" -> "iscorrect"
      [] OTHER             -> key

\* the first character's case swapped, on the keys the model uses
SwapFirst(key) ==
    CASE key = "Question"  -> "question"
      [] key = "question"  -> "Question"
      [] key = "Type"      -> "type"
      [] key = "type"      -> "Type"
      [] key = "Options"   -> "options"
      [] key = "options"   -> "Options"
      [] key = "Text"      -> "text"
      [] key = "text"      -> "Text"
      [] key = "IsCorrect" -> "isCorrect"
      [] key = "isCorrect" -> "IsCorrect"
      [] OTHER             -> key

\* key.charAt(0).toLowerCase() + key.slice(1) on the keys the model uses
LowerFirst(key) ==
    CASE key = "Question"  -> "question"
      [] key = "Type"      -> "type"
      [] key = "Options"   -> "options"
      [] key = "Text"      -> "text"
      [] key = "IsCorrect" -> "isCorrect"
      [] OTHER             -> key

RECURSIVE normalizeKeys(_)
RECURSIVE NormalizeProps(_, _)
\* the reduce over Object.keys(obj): acc[newKey] = normalizeKeys(obj[key])
NormalizeProps(kvs, acc) ==
    IF kvs = << >> THEN acc
    ELSE NormalizeProps(Tail(kvs),
             SetProp(acc, LowerFirst(Head(kvs)[1]), normalizeKeys(Head(kvs)[2])))

normalizeKeys(obj) ==
    IF TypeOf(obj) # "object" \/ obj.t = "null" THEN obj
    ELSE IF IsArray(obj)
         THEN JArr([i \in 1 .. Len(obj.a) |-> normalizeKeys(obj.a[i])])
         ELSE JObj(NormalizeProps(obj.o, << >>))

isValidQuizOption(o) ==
    /\ TypeOf(o) = "object" /\ o.t # "null"
    /\ TypeOf(Prop(o, "text")) = "string"
    /\ TypeOf(Prop(o, "isCorrect")) = "boolean"

isValidQuizQuestion(q) ==
    /\ TypeOf(q) = "object" /\ q.t # "null"
    /\ TypeOf(Prop(q, "question")) = "string"
    /\ Trim(Prop(q, "question").s) # ""
    /\ Prop(q, "type") \in {JStr("multiple-choice"), JStr("true-false")}
    /\ IsArray(Prop(q, "options"))
    /\ \A i \in 1 .. Len(Prop(q, "options").a) :
           isValidQuizOption(Prop(q, "options").a[i])

isValidQuizQuestionArray(data) ==
    /\ IsArray(data)
    /\ \A i \in 1 .. Len(data.a) : isValidQuizQuestion(data.a[i])

\* The JSON texts the model uses, each with the value JSON.parse gives it
LegacyQuizJson == "[{\"Question\":\"Q?\",\"type\":\"true-false\",\"options\":[{\"text\":\"True\",\"isCorrect\":true},{\"text\":\"False\",\"isCorrect\":false}]}]"

LegacyQuizJsonValue ==
    JArr(<< JObj(<< << "Question", JStr("Q?") >>,
                    << "type", JStr("true-false") >>,
                    << "options", JArr(<< JObj(<< << "text", JStr("True") >>,
                                                  << "isCorrect", JBool(TRUE) >> >>),
                                          JObj(<< << "text", JStr("False") >>,
                                                  << "isCorrect", JBool(FALSE) >> >>) >>) >> >>) >>)

ArtifactJson == "[{\"title\":\"Amman\",\"country\":\"JO\",\"coordinates\":[31,35]},{\"title\":\"Jerash\",\"country\":\"JO\",\"coordinates\":[32,35],\"questions\":[{\"text\":\"Q1?\",\"type\":\"true_false\",\"answer\":\"False\"},{\"text\":\"Q2?\",\"type\":\"multiple_choice\",\"options\":[\"A\",\"B\"],\"answer\":\"B\"}],\"block_navigation\":true}]"

ArtifactJsonValue ==
    JArr(<< JObj(<< << "title", JStr("Amman") >>, << "country", JStr("JO") >>,
                    << "coordinates", JArr(<< JNum(31), JNum(35) >>) >> >>),
            JObj(<< << "title", JStr("Jerash") >>, << "country", JStr("JO") >>,
                    << "coordinates", JArr(<< JNum(32), JNum(35) >>) >>,
                    << "questions",
                       JArr(<< JObj(<< << "text", JStr("Q1?") >>,
                                       << "type", JStr("true_false") >>,
                                       << "answer", JStr("False") >> >>),
                               JObj(<< << "text", JStr("Q2?") >>,
                                       << "type", JStr("multiple_choice") >>,
                                       << "options", JArr(<< JStr("A"), JStr("B") >>) >>,
                                       << "answer", JStr("B") >> >>) >>) >>,
                    << "block_navigation", JBool(TRUE) >> >>) >>)

\* Date.now() is in milliseconds since 1970; the model writes the timestamps
\* it uses as ids as small numbers above every positional id
StoreJson == "[{\"id\":1001,\"name\":\"Cafe\",\"coords\":[31,35],\"quiz\":[{\"question\":\"Q?\",\"type\":\"true-false\",\"options\":[{\"text\":\"True\",\"isCorrect\":true},{\"text\":\"False\",\"isCorrect\":false}]}],\"block_navigation\":true},{\"id\":1002,\"name\":\" \",\"coords\":[31,35]},{\"id\":0,\"name\":\"Zero\",\"coords\":[30,36],\"quiz\":[{\"question\":\"Q?\",\"type\":\"true-false\",\"options\":[{\"text\":\"True\",\"isCorrect\":true},{\"text\":\"False\",\"isCorrect\":false}]}],\"block_navigation\":true}]"

StoreQuizValue ==
    JArr(<< JObj(<< << "question", JStr("Q?") >>,
                    << "type", JStr("true-false") >>,
                    << "options", JArr(<< JObj(<< << "text", JStr("True") >>,
                                                  << "isCorrect", JBool(TRUE) >> >>),
                                          JObj(<< << "text", JStr("False") >>,
                                                  << "isCorrect", JBool(FALSE) >> >>) >>) >> >>) >>)

StoreJsonValue ==
    JArr(<< JObj(<< << "id", JNum(1001) >>, << "name", JStr("Cafe") >>,
                    << "coords", JArr(<< JNum(31), JNum(35) >>) >>,
                    << "quiz", StoreQuizValue >>,
                    << "block_navigation", JBool(TRUE) >> >>),
            JObj(<< << "id", JNum(1002) >>, << "name", JStr(" ") >>,
                    << "coords", JArr(<< JNum(31), JNum(35) >>) >> >>),
            JObj(<< << "id", JNum(0) >>, << "name", JStr("Zero") >>,
                    << "coords", JArr(<< JNum(30), JNum(36) >>) >>,
                    << "quiz", StoreQuizValue >>,
                    << "block_navigation", JBool(TRUE) >> >>) >>)

StoreJsonSameId == "[{\"id\":1,\"name\":\"Souk\",\"coords\":[31,36]}]"

StoreJsonSameIdValue ==
    JArr(<< JObj(<< << "id", JNum(1) >>, << "name", JStr("Souk") >>,
                    << "coords", JArr(<< JNum(31), JNum(36) >>) >> >>) >>)

\* the record JSON.stringify writes for the landmark handleSaveLandmark
\* builds from the dialog's name and the place clicked on
SavedRecord(id, name, coords) ==
    JObj(<< << "id", JNum(id) >>, << "coords", coords >>, << "name", name >>,
            << "title", JStr("CAFE") >>, << "description", JStr("Coffee") >>,
            << "iconType", JStr("monument") >> >>)

\* a store as handleSaveLandmark leaves it after one landmark was added
StoreJsonSaved == "[{\"id\":1001,\"coords\":[31,35],\"name\":\"Cafe\",\"title\":\"CAFE\",\"description\":\"Coffee\",\"iconType\":\"monument\"}]"

StoreJsonSavedValue ==
    JArr(<< SavedRecord(1001, JStr("Cafe"), JArr(<< JNum(31), JNum(35) >>)) >>)

\* an artifact whose second record has no title and whose third has a null
\* coordinate
ArtifactJsonIncomplete == "[{\"title\":\"Amman\",\"coordinates\":[31,35]},{\"country\":\"JO\",\"coordinates\":[32,35]},{\"title\":\"Far\",\"coordinates\":[31,null]}]"

ArtifactJsonIncompleteValue ==
    JArr(<< JObj(<< << "title", JStr("Amman") >>,
                    << "coordinates", JArr(<< JNum(31), JNum(35) >>) >> >>),
            JObj(<< << "country", JStr("JO") >>,
                    << "coordinates", JArr(<< JNum(32), JNum(35) >>) >> >>),
            JObj(<< << "title", JStr("Far") >>,
                    << "coordinates", JArr(<< JNum(31), JNull >>) >> >>) >>)

\* an artifact whose first record has a true_false question without answer
ArtifactJsonBadQuiz == "[{\"title\":\"Amman\",\"coordinates\":[31,35],\"questions\":[{\"text\":\"Q?\",\"type\":\"true_false\"}]},{\"title\":\"Jerash\",\"coordinates\":[32,35]}]"

ArtifactJsonBadQuizValue ==
    JArr(<< JObj(<< << "title", JStr("Amman") >>,
                    << "coordinates", JArr(<< JNum(31), JNum(35) >>) >>,
                    << "questions",
                       JArr(<< JObj(<< << "text", JStr("Q?") >>,
                                       << "type", JStr("true_false") >> >>) >>) >> >>),
            JObj(<< << "title", JStr("Jerash") >>,
                    << "coordinates", JArr(<< JNum(32), JNum(35) >>) >> >>) >>)

\* a store with a quiz that is no JSON text, a record without coords, one
\* without name, a null, and a quiz of an unknown question type
StoreJsonMixed == "[{\"id\":7,\"name\":\"Souk\",\"coords\":[31,36],\"quiz\":\"oops\"},{\"id\":8,\"name\":\"NoCoords\"},{\"id\":9,\"coords\":[31,36]},null,{\"id\":10,\"name\":\"Inn\",\"coords\":[\"30\",\"35\"],\"quiz\":[{\"question\":\"Q?\",\"type\":\"essay\",\"options\":[]}]}]"

StoreJsonMixedValue ==
    JArr(<< JObj(<< << "id", JNum(7) >>, << "name", JStr("Souk") >>,
                    << "coords", JArr(<< JNum(31), JNum(36) >>) >>,
                    << "quiz", JStr("oops") >> >>),
            JObj(<< << "id", JNum(8) >>, << "name", JStr("NoCoords") >> >>),
            JObj(<< << "id", JNum(9) >>,
                    << "coords", JArr(<< JNum(31), JNum(36) >>) >> >>),
            JNull,
            JObj(<< << "id", JNum(10) >>, << "name", JStr("Inn") >>,
                    << "coords", JArr(<< JStr("30"), JStr("35") >>) >>,
                    << "quiz", JArr(<< JObj(<< << "question", JStr("Q?") >>,
                                               << "type", JStr("essay") >>,
                                               << "options", JArr(<< >>) >> >>) >>) >> >>) >>)

\* s.trim().startsWith('[') && s.trim().endsWith(']') on the model's strings
IsBracketed(x) ==
    x \in {LegacyQuizJson, ArtifactJson, StoreJson, StoreJsonSameId,
           ArtifactJsonIncomplete, ArtifactJsonBadQuiz, StoreJsonMixed,
           "[oops]", "[]", "[null]"}

\* JSON.parse(x): [ok |-> FALSE] when it throws
JsonParse(x) ==
    CASE x = LegacyQuizJson  -> [ok |-> TRUE, v |-> LegacyQuizJsonValue]
      [] x = ArtifactJson    -> [ok |-> TRUE, v |-> ArtifactJsonValue]
      [] x = StoreJson       -> [ok |-> TRUE, v |-> StoreJsonValue]
      [] x = StoreJsonSameId -> [ok |-> TRUE, v |-> StoreJsonSameIdValue]
      [] x = ArtifactJsonIncomplete -> [ok |-> TRUE, v |-> ArtifactJsonIncompleteValue]
      [] x = ArtifactJsonBadQuiz    -> [ok |-> TRUE, v |-> ArtifactJsonBadQuizValue]
      [] x = StoreJsonMixed         -> [ok |-> TRUE, v |-> StoreJsonMixedValue]
      [] x = StoreJsonSaved         -> [ok |-> TRUE, v |-> StoreJsonSavedValue]
      [] x = "[]"            -> [ok |-> TRUE, v |-> JArr(<< >>)]
      [] x = "[null]"        -> [ok |-> TRUE, v |-> JArr(<< JNull >>)]
      [] x = "30"            -> [ok |-> TRUE, v |-> JNum(30)]
      [] x = "{}"            -> [ok |-> TRUE, v |-> JObj(<< >>)]
      [] OTHER               -> [ok |-> FALSE, v |-> JUndef]

parseAndValidateQuiz(quizData) ==
    IF ~Truthy(quizData) THEN JUndef
    ELSE IF TypeOf(quizData) = "string"
              /\ ~(IsBracketed(quizData.s) /\ JsonParse(quizData.s).ok)
         THEN JUndef
         ELSE LET parsedQuiz == IF TypeOf(quizData) = "string"
                                THEN JsonParse(quizData.s).v ELSE quizData
                  normalizedQuiz == normalizeKeys(parsedQuiz)
              IN  IF isValidQuizQuestionArray(normalizedQuiz)
                       /\ Len(normalizedQuiz.a) > 0
                  THEN normalizedQuiz
                  ELSE JUndef

----------------------------------------------------------------------------
(* Builder-format quiz parser of the upload path (App) *)

QuizQuestionObj(question, type, options) ==
    JObj(<< << "question", question >>, << "type", JStr(type) >>,
            << "options", JArr(options) >> >>)

QuizOptionObj(text, isCorrect) ==
    JObj(<< << "text", text >>, << "isCorrect", JBool(isCorrect) >> >>)

\* one element of questions.map(...): << >> for null
transformUploadedQuestion(q) ==
    IF \/ ~Truthy(q)
       \/ TypeOf(Prop(q, "text")) # "string"
       \/ ~Truthy(Prop(q, "type"))
       \/ TypeOf(Prop(q, "answer")) = "undefined"
    THEN << >>
    ELSE LET questionType == ToLowerCase(JsString(Prop(q, "type")))
             answer == Trim(JsString(Prop(q, "answer")))
             opts == Prop(q, "options")
         IN  IF questionType = "multiple_choice"
             THEN IF ~IsArray(opts) THEN << >>
                  ELSE << QuizQuestionObj(Prop(q, "text"), "multiple-choice",
                            [i \in 1 .. Len(opts.a) |->
                                QuizOptionObj(JStr(Trim(JsString(opts.a[i]))),
                                              Trim(JsString(opts.a[i])) = answer)]) >>
             ELSE IF questionType = "true_false"
             THEN LET answerBool == ToLowerCase(answer) = "true"
                  IN  << QuizQuestionObj(Prop(q, "text"), "true-false",
                            << QuizOptionObj(JStr("True"), answerBool),
                               QuizOptionObj(JStr("False"), ~answerBool) >>) >>
             ELSE << >>

\* the parser without the check that a question is left
transformUploadedQuizKeepEmpty(questions) ==
    IF ~IsArray(questions) THEN JUndef
    ELSE LET One(q, k) == transformUploadedQuestion(q)
         IN  JArr(FlatMapIdx(questions.a, One, 0))

transformUploadedQuiz(questions) ==
    IF ~IsArray(questions) THEN JUndef
    ELSE LET One(q, k) == transformUploadedQuestion(q)
             transformed == FlatMapIdx(questions.a, One, 0)
         IN  IF Len(transformed) > 0 THEN JArr(transformed) ELSE JUndef

----------------------------------------------------------------------------
(* Landmarks.  A landmark keeps the fields navigation and loading decide on:   *)
(* id, name, coords, quiz, block_navigation (as JavaScript values, except the  *)
(* id); the fields only the presentation layer reads (title, description,      *)
(* imageUrl, iconType, videoUrl, audioUrl) are left out.                       *)

Landmark(id, name, coords, quiz, block) ==
    [id |-> id, name |-> name, coords |-> coords, quiz |-> quiz,
     block_navigation |-> block]

\* ./constants is not part of the sources: the synthetic intro landmark
\* (id 0, no quiz, no gating)
INTRO_LANDMARK ==
    Landmark(0, JStr("Intro"), JArr(<< JNum(31), JNum(36) >>), JUndef, JUndef)

\* ./constants is not part of the sources: the built-in Tour, the intro
\* followed by the built-in landmarks
FALLBACK_LANDMARKS ==
    << INTRO_LANDMARK,
       Landmark(1, JStr("Petra"), JArr(<< JNum(30), JNum(35) >>), JUndef, JUndef),
       Landmark(2, JStr("Wadi Rum"), JArr(<< JNum(29), JNum(35) >>), JUndef, JUndef) >>

\* the coordinate check without the test for null entries
ProcessCoordsNullAsZero(rawCoords) ==
    IF /\ IsArray(rawCoords) /\ Len(rawCoords.a) = 2
       /\ IsFinite(ToNumber(rawCoords.a[1]))
       /\ IsFinite(ToNumber(rawCoords.a[2]))
    THEN JArr(<< ToNumber(rawCoords.a[1]), ToNumber(rawCoords.a[2]) >>)
    ELSE JNull

\* The coordinate check shared by the dataset, overlay and upload coercers:
\* [lat, lon] for a 2-element array of non-null entries that convert to
\* finite numbers, else null
ProcessCoords(rawCoords) ==
    IF /\ IsArray(rawCoords) /\ Len(rawCoords.a) = 2
       /\ rawCoords.a[1].t # "null" /\ rawCoords.a[2].t # "null"
       /\ IsFinite(ToNumber(rawCoords.a[1]))
       /\ IsFinite(ToNumber(rawCoords.a[2]))
    THEN JArr(<< ToNumber(rawCoords.a[1]), ToNumber(rawCoords.a[2]) >>)
    ELSE JNull

\* typeof name !== 'string' || !name.trim()
InvalidName(name) == TypeOf(name) # "string" \/ Trim(name.s) = ""

----------------------------------------------------------------------------
(* Upload coercer: the callback of loadedData.map in handleFileChange *)

UploadQuiz(item) ==
    LET fromQuestions == IF Truthy(Prop(item, "questions"))
                         THEN transformUploadedQuiz(Prop(item, "questions"))
                         ELSE JUndef
    IN  IF Truthy(fromQuestions) THEN fromQuestions
        ELSE parseAndValidateQuiz(Or(Prop(item, "quiz"), Prop(item, "Quiz")))

\* << >> for null; now is Date.now()
CoerceUploadItem(item, index, now) ==
    LET name == Or(Or(Prop(item, "name"), Prop(item, "city")), Prop(item, "title"))
        processedCoords == ProcessCoords(Or(Prop(item, "coords"), Prop(item, "coordinates")))
        id == Prop(item, "id")
    IN  IF TypeOf(item) # "object" \/ item.t = "null" THEN << >>
        ELSE IF InvalidName(name) THEN << >>
        ELSE IF ~Truthy(processedCoords) THEN << >>
        ELSE << Landmark(IF Truthy(id) /\ TypeOf(id) = "number" THEN id.n ELSE now + index,
                         name, processedCoords, UploadQuiz(item),
                         JBool(Truthy(Prop(item, "block_navigation")))) >>

----------------------------------------------------------------------------
(* Persisted-overlay coercer: the callback of loadedCustom.map in loadData *)

CoerceOverlayItem(item, now) ==
    LET processedCoords == ProcessCoords(Prop(item, "coords"))
        name == Prop(item, "name")
        id == Prop(item, "id")
    IN  IF TypeOf(item) # "object" \/ item.t = "null" THEN << >>
        ELSE IF ~Truthy(processedCoords) THEN << >>
        ELSE IF InvalidName(name) THEN << >>
        ELSE << Landmark(IF TypeOf(id) = "number" THEN id.n ELSE now,
                         name, processedCoords,
                         parseAndValidateQuiz(Prop(item, "quiz")),
                         JBool(Truthy(Prop(item, "block_navigation")))) >>

----------------------------------------------------------------------------
(* Dataset coercer: the callback of items.map in loadData.  A coercer that  *)
(* can throw returns [threw |-> TRUE] in place of its result.               *)

Threw == [threw |-> TRUE, v |-> << >>]

Returned(v) == [threw |-> FALSE, v |-> v]

\* reading a property of null or undefined throws a TypeError
ThrowsOnRead(v) == v.t \in {"null", "undefined"}

CoerceDatasetItem(item, index) ==
    IF ThrowsOnRead(item) THEN Threw
    ELSE LET processedCoords == ProcessCoords(Prop(item, "coordinates"))
             quizData == Or(Or(Prop(item, "quiz"), Prop(item, "Quiz")), Prop(item, "questions"))
         IN  IF ~Truthy(processedCoords) THEN Returned(<< >>)
             \* (item.city as string).toUpperCase()
             ELSE IF TypeOf(Prop(item, "city")) # "string" THEN Threw
             ELSE Returned(<< Landmark(index + 1, Prop(item, "city"), processedCoords,
                                       parseAndValidateQuiz(quizData),
                                       JBool(Truthy(Prop(item, "block_navigation")))) >>)

RECURSIVE MapThrowing(_, _, _)
\* items.map(F).filter(x => x !== null) for a callback that can throw
MapThrowing(s, F(_, _), k) ==
    IF k >= Len(s) THEN Returned(<< >>)
    ELSE LET head == F(At(s, k), k)
             rest == MapThrowing(s, F, k + 1)
         IN  IF head.threw \/ rest.threw THEN Threw
             ELSE Returned(head.v \o rest.v)

----------------------------------------------------------------------------
(* Remote-artifact coercer (utils/dataTransform) *)

transformQuestion(question, k) ==
    IF ThrowsOnRead(question) THEN Threw
    ELSE IF Prop(question, "type") = JStr("true_false")
    THEN \* question.answer.toLowerCase()
         IF TypeOf(Prop(question, "answer")) # "string" THEN Threw
         ELSE LET correctAnswer == ToLowerCase(Prop(question, "answer").s)
              IN  Returned(<< QuizQuestionObj(Prop(question, "text"), "true-false",
                                << QuizOptionObj(JStr("True"), correctAnswer = "true"),
                                   QuizOptionObj(JStr("False"), correctAnswer = "false") >>) >>)
    ELSE IF Prop(question, "type") = JStr("multiple_choice")
              /\ Truthy(Prop(question, "options"))
    THEN LET opts == Prop(question, "options")
         IN  \* question.options.map(...)
             IF ~IsArray(opts) THEN Threw
             ELSE Returned(<< QuizQuestionObj(Prop(question, "text"), "multiple-choice",
                                [i \in 1 .. Len(opts.a) |->
                                    QuizOptionObj(opts.a[i],
                                                  opts.a[i] = Prop(question, "answer"))]) >>)
    ELSE Returned(<< >>)

\* location.questions.length > 0
HasPositiveLength(v) ==
    \/ IsArray(v) /\ Len(v.a) > 0
    \/ TypeOf(v) = "string" /\ v.s # ""

BuilderLocationToLandmark(location, index) ==
    IF ThrowsOnRead(location) THEN Threw
    ELSE LET questions == Prop(location, "questions")
             transformed ==
                 IF Truthy(questions) /\ HasPositiveLength(questions)
                 THEN \* location.questions.map(transformQuestion)
                      IF ~IsArray(questions) THEN Threw
                      ELSE MapThrowing(questions.a, transformQuestion, 0)
                 ELSE Returned(<< >>)
         IN  IF transformed.threw THEN Threw
             ELSE Returned(<< Landmark(index + 1, Prop(location, "title"),
                                       Prop(location, "coordinates"),
                                       IF Len(transformed.v) > 0
                                       THEN JArr(transformed.v) ELSE JUndef,
                                       Prop(location, "block_navigation")) >>)

transformBuilderDataToLandmarks(builderData) ==
    MapThrowing(builderData, BuilderLocationToLandmark, 0)

----------------------------------------------------------------------------
(* Session parameters (utils/urlParams) *)

\* the base URL as it is, with its trailing slash
KeepTrailingSlash(x) == x

\* baseUrl.endsWith('/') ? baseUrl.slice(0, -1) : baseUrl, on the model's URLs
StripTrailingSlash(x) ==
    CASE x = "https://api/"  -> "https://api"
      [] x = "https://api//" -> "https://api/"
      [] x = "/"             -> ""
      [] OTHER               -> x

\* query is the parsed query string: params.get(name) per name, null if absent
getURLParams(query) ==
    [token      |-> query.token,
     artifactId |-> query.artifact_id,
     baseUrl    |-> IF Truthy(query.base_url)
                    THEN JStr(StripTrailingSlash(query.base_url.s))
                    ELSE query.base_url]

hasRequiredParams(params) ==
    Truthy(params.token) /\ Truthy(params.artifactId) /\ Truthy(params.baseUrl)

----------------------------------------------------------------------------
(* The environment of loadData.                                              *)
(*   query   : the page's query string                                       *)
(*   remote  : what the artifact request does: "networkError" (fetch         *)
(*             rejects), "notOk" (response.ok is false), "jsonThrows"        *)
(*             (response.json() rejects), "body" (the parsed body is data)   *)
(*   dataset : window.le_v2: "absent", "throws" (getDataset or readAll       *)
(*             rejects), "rows" (readAll resolves to rows)                   *)
(*   store   : localStorage 'locations': "absent" (getItem gives null),      *)
(*             "denied" (getItem throws), "text"                             *)

Queries ==
    << [token |-> JStr("tok"), artifact_id |-> JStr("7"), base_url |-> JStr("https://api/")],
      [token |-> JStr("tok"), artifact_id |-> JStr("7"), base_url |-> JStr("/")],
      [token |-> JNull, artifact_id |-> JStr("7"), base_url |-> JStr("https://api")],
      [token |-> JNull, artifact_id |-> JNull, base_url |-> JNull],
      [token |-> JStr(""), artifact_id |-> JStr("7"), base_url |-> JStr("https://api")],
      [token |-> JStr("tok"), artifact_id |-> JStr(""), base_url |-> JStr("https://api")],
      [token |-> JStr("tok"), artifact_id |-> JStr("7"), base_url |-> JStr("")],
      [token |-> JStr("tok"), artifact_id |-> JStr("7"), base_url |-> JStr("https://api//")] >>

ArtifactBody(text) == JObj(<< << "artifact_data", text >> >>)

Remotes ==
    << [kind |-> "networkError", data |-> JUndef],
      [kind |-> "notOk", data |-> JUndef],
      [kind |-> "jsonThrows", data |-> JUndef],
      [kind |-> "body", data |-> JNull],
      [kind |-> "body", data |-> JObj(<< >>)],
      [kind |-> "body", data |-> ArtifactBody(JStr(""))],
      [kind |-> "body", data |-> ArtifactBody(JStr("oops"))],
      [kind |-> "body", data |-> ArtifactBody(JStr("30"))],
      [kind |-> "body", data |-> ArtifactBody(JStr("[]"))],
      [kind |-> "body", data |-> ArtifactBody(JStr("[null]"))],
      [kind |-> "body", data |-> ArtifactBody(JStr(ArtifactJson))],
      [kind |-> "body", data |-> ArtifactBody(JStr(ArtifactJsonIncomplete))],
      [kind |-> "body", data |-> ArtifactBody(JStr(ArtifactJsonBadQuiz))] >>

DatasetRows ==
    JArr(<< JObj(<< << "city", JStr("Petra") >>,
                    << "coordinates", JArr(<< JStr("30"), JStr("35") >>) >> >>),
            JObj(<< << "city", JStr("Aqaba") >>,
                    << "coordinates", JArr(<< JNum(29), JNull >>) >> >>),
            JObj(<< << "city", JStr("Jerash") >>,
                    << "coordinates", JArr(<< JNum(32), JNum(35) >>) >>,
                    << "Quiz", JStr(LegacyQuizJson) >>,
                    << "block_navigation", JBool(TRUE) >> >>) >>)

DatasetRowsNoCity ==
    JArr(<< JObj(<< << "city", JStr("Petra") >>,
                    << "coordinates", JArr(<< JNum(30), JNum(35) >>) >> >>),
            JObj(<< << "coordinates", JArr(<< JNum(31), JNum(35) >>) >> >>) >>)

DatasetRowsAllRejected ==
    JArr(<< JObj(<< << "city", JStr("Aqaba") >>,
                    << "coordinates", JArr(<< JNum(29), JNull >>) >> >>) >>)

\* rows with coordinates of many shapes; the last row has good coordinates
\* and a quiz that is no JSON text
DatasetRowsShapes ==
    JArr(<< JObj(<< << "city", JStr("Three") >>,
                    << "coordinates", JArr(<< JNum(31), JNum(35), JNum(1) >>) >> >>),
            JObj(<< << "city", JStr("Text") >>, << "coordinates", JStr("30") >> >>),
            JObj(<< << "city", JStr("East") >>,
                    << "coordinates", JArr(<< JStr("east"), JNum(35) >>) >> >>),
            JObj(<< << "city", JStr("None") >> >>),
            JObj(<< << "city", JStr("Inf") >>,
                    << "coordinates", JArr(<< JNum(31), JInfinity >>) >> >>),
            JObj(<< << "city", JStr("NaN") >>,
                    << "coordinates", JArr(<< JNaN, JNum(35) >>) >> >>),
            JObj(<< << "city", JStr("Blank") >>,
                    << "coordinates", JArr(<< JStr(" "), JBool(TRUE) >>) >> >>),
            JObj(<< << "city", JStr("Quizzed") >>,
                    << "coordinates", JArr(<< JNum(32), JStr("35") >>) >>,
                    << "quiz", JStr("[oops]") >> >>) >>)

Datasets ==
    << [kind |-> "absent", rows |-> JUndef],
      [kind |-> "throws", rows |-> JUndef],
      [kind |-> "rows", rows |-> JNull],
      [kind |-> "rows", rows |-> JArr(<< >>)],
      [kind |-> "rows", rows |-> JArr(<< JNull >>)],
      [kind |-> "rows", rows |-> DatasetRowsAllRejected],
      [kind |-> "rows", rows |-> DatasetRowsNoCity],
      [kind |-> "rows", rows |-> DatasetRows],
      [kind |-> "rows", rows |-> DatasetRowsShapes] >>

Stores ==
    << [kind |-> "absent", text |-> ""],
      [kind |-> "denied", text |-> ""],
      [kind |-> "text", text |-> ""],
      [kind |-> "text", text |-> "oops"],
      [kind |-> "text", text |-> "30"],
      [kind |-> "text", text |-> StoreJsonSameId],
      [kind |-> "text", text |-> StoreJson],
      [kind |-> "text", text |-> StoreJsonMixed],
      [kind |-> "text", text |-> StoreJsonSaved] >>

\* Date.now() readings
NowValues == {1001}

\* an environment names one case of each kind by its position
Envs == [query : DOMAIN Queries, remote : DOMAIN Remotes,
         dataset : DOMAIN Datasets, store : DOMAIN Stores]

----------------------------------------------------------------------------
(* loadData, one operator per try block and per catch clause *)

NotLoaded == Returned([loaded |-> FALSE, landmarks |-> << >>])

\* the inner try block: JSON.parse(data.artifact_data) and the coercion
RemoteInner(data) ==
    LET parsed == JsonParse(JsString(Prop(data, "artifact_data")))
    IN  IF ~parsed.ok THEN Threw
        ELSE IF IsArray(parsed.v) /\ Len(parsed.v.a) > 0
        THEN LET transformedLandmarks == transformBuilderDataToLandmarks(parsed.v.a)
             IN  IF transformedLandmarks.threw THEN Threw
                 ELSE Returned([loaded |-> TRUE,
                                landmarks |-> << INTRO_LANDMARK >> \o transformedLandmarks.v])
        ELSE NotLoaded

\* catch (parseError)
RemoteInnerCaught(r) == IF r.threw THEN NotLoaded ELSE r

\* the outer try block: fetch, response.ok, response.json(), 'artifact_data' in data
RemoteOuter(remote) ==
    CASE remote.kind = "networkError" -> Threw
      [] remote.kind = "notOk"        -> NotLoaded
      [] remote.kind = "jsonThrows"   -> Threw
      [] OTHER ->
           \* the `in` operator throws on a value that is not an object
           IF TypeOf(remote.data) # "object" \/ remote.data.t = "null" THEN Threw
           ELSE IF /\ \E i \in 1 .. Len(remote.data.o) : remote.data.o[i][1] = "artifact_data"
                   /\ Truthy(Prop(remote.data, "artifact_data"))
           THEN RemoteInnerCaught(RemoteInner(remote.data))
           ELSE NotLoaded

\* catch (error) of the outer try
RemoteOuterCaught(r) == IF r.threw THEN NotLoaded ELSE r

RemoteAttempt(e) ==
    IF hasRequiredParams(getURLParams(Queries[e.query]))
    THEN RemoteOuterCaught(RemoteOuter(Remotes[e.remote]))
    ELSE NotLoaded

\* the try block of the dataset step
DatasetBody(dataset) ==
    IF dataset.kind = "throws" THEN Threw
    ELSE LET items == dataset.rows
         IN  IF Truthy(items) /\ IsArray(items) /\ Len(items.a) > 0
             THEN LET formattedLandmarks == MapThrowing(items.a, CoerceDatasetItem, 0)
                  IN  IF formattedLandmarks.threw THEN Threw
                      ELSE Returned(<< INTRO_LANDMARK >> \o formattedLandmarks.v)
             ELSE Returned(FALLBACK_LANDMARKS)

\* catch (error) of the dataset step
DatasetCaught(r) == IF r.threw THEN Returned(FALLBACK_LANDMARKS) ELSE r

DatasetAttempt(dataset) ==
    IF dataset.kind = "absent" THEN Returned(FALLBACK_LANDMARKS)
    ELSE DatasetCaught(DatasetBody(dataset))

\* the try block of the overlay step: the combined landmarks
OverlayBody(base, store, now) ==
    IF store.kind = "denied" THEN Threw
    ELSE IF store.kind = "absent" \/ store.text = "" THEN Returned(base)
    ELSE LET loadedCustom == JsonParse(store.text)
             One(item, k) == CoerceOverlayItem(item, now)
         IN  IF ~loadedCustom.ok THEN Threw
             ELSE IF IsArray(loadedCustom.v)
             THEN Returned(base \o FlatMapIdx(loadedCustom.v.a, One, 0))
             ELSE Returned(base)

\* the overlay step without its catch clause
OverlayUncaught(r, base) == r

\* a catch clause that would leave the Tour empty
OverlayCaughtEmpty(r, base) == IF r.threw THEN Returned(<< >>) ELSE r

\* catch (error) of the overlay step: setLandmarks(loadedBaseLandmarks)
OverlayCaught(r, base) == IF r.threw THEN Returned(base) ELSE r

----------------------------------------------------------------------------
(* Uploaded files: what FileReader and JSON.parse make of the chosen file.    *)
(*   kind "readError" : reader.onerror fires                                 *)
(*   kind "empty"     : the text is empty                                    *)
(*   kind "invalid"   : JSON.parse(text) throws                              *)
(*   kind "json"      : JSON.parse(text) gives data                          *)

BuilderQuestions ==
    JArr(<< JObj(<< << "text", JStr("Q1?") >>, << "type", JStr("True_False") >>,
                    << "answer", JStr(" True ") >> >>),
            JObj(<< << "text", JStr("Q2?") >>, << "type", JStr("multiple_choice") >>,
                    << "options", JArr(<< JStr("A"), JStr("B") >>) >>,
                    << "answer", JStr("B") >> >>),
            JObj(<< << "text", JStr("Q3?") >>, << "type", JStr("short_answer") >>,
                    << "answer", JStr("x") >> >>) >>)

UploadTour ==
    JArr(<< JObj(<< << "name", JStr("Alpha") >>, << "id", JNum(5) >>,
                    << "coordinates", JArr(<< JNum(31), JNum(35) >>) >>,
                    << "questions", JStr("oops") >>,
                    << "quiz", JStr("[oops]") >> >>),
            JNum(42),
            JObj(<< << "name", JStr(" ") >>,
                    << "coordinates", JArr(<< JNum(31), JNum(35) >>) >> >>),
            JObj(<< << "title", JStr("Gamma") >>, << "id", JNum(5) >>,
                    << "coords", JArr(<< JStr("30"), JStr("36") >>) >>,
                    << "questions", BuilderQuestions >>,
                    << "block_navigation", JBool(TRUE) >> >>) >>)

UploadSolo ==
    JArr(<< JObj(<< << "city", JStr("Solo") >>,
                    << "coordinates", JArr(<< JNum(31), JNum(35) >>) >>,
                    << "quiz", JStr(LegacyQuizJson) >> >>) >>)

UploadAllInvalid ==
    JArr(<< JObj(<< << "name", JStr("NoCoords") >> >>),
            JObj(<< << "coordinates", JArr(<< JNum(31), JNum(35) >>) >> >>),
            JObj(<< << "name", JStr("Far") >>,
                    << "coordinates", JArr(<< JNum(31), JStr("east") >>) >> >>),
            JNull >>)

\* the files of the model; a file is chosen by its position
UploadFiles ==
    << [kind |-> "readError", data |-> JUndef],
       [kind |-> "empty", data |-> JUndef],
       [kind |-> "invalid", data |-> JUndef],
       [kind |-> "json", data |-> JObj(<< >>)],
       [kind |-> "json", data |-> JArr(<< >>)],
       [kind |-> "json", data |-> UploadAllInvalid],
       [kind |-> "json", data |-> UploadSolo],
       [kind |-> "json", data |-> UploadTour] >>

----------------------------------------------------------------------------
(* Navigation helpers *)

\* slideDuration in handleNext and handlePrev (ms)
SlideDuration == 400

\* the fade-out duration in handleSelectLandmark (ms)
FadeDuration == 300

\* the number of setTimeout callbacks that may be pending at once
MaxPending == 3

\* the next index without the wrap to 0
NextIndexNoWrap(i, len) == i + 1

NextIndex(i, len) == (i + 1) % len

PrevIndex(i, len) == (i - 1 + len) % len

\* the condition under which handleNext opens the quiz instead of moving on
Gated(l) ==
    /\ l.id # 0
    /\ Truthy(l.quiz) /\ Len(l.quiz.a) > 0
    /\ Truthy(l.block_navigation)

\* landmarks[sidebarIndex] is defined and gated
CurrentGated == InRange(landmarks, sidebarIndex) /\ Gated(At(landmarks, sidebarIndex))

\* landmarks.findIndex(l => l.id === id)
IndexOfId(id) == LET P(l) == l.id = id IN FindIndex(landmarks, P)

Timer(due, kind, idx, both) ==
    [due |-> due, kind |-> kind, idx |-> idx, both |-> both]

\* the two setTimeout calls of a slide (handleNext.transition, handlePrev)
SlideTimers(nextIndex) ==
    << Timer(SlideDuration, "swap", nextIndex, FALSE),
       Timer(SlideDuration * 2, "done", nextIndex, FALSE) >>

\* the two setTimeout calls of handleSelectLandmark
FadeTimers(index) ==
    << Timer(FadeDuration, "swap", index, TRUE),
       Timer(FadeDuration * 2, "done", index, TRUE) >>

CanSchedule == Len(timers) + 2 <= MaxPending

ClosedQuiz == [isOpen |-> FALSE, questions |-> << >>, capIdx |-> 0, capLen |-> 0]

\* QuizModal's state as the effect on [isOpen] resets it
FreshQuizModal ==
    [currentQ |-> 0, selectedOptionIndex |-> -1, isAnswered |-> FALSE,
     score |-> 0, showResults |-> FALSE]

\* QuizModal renders question.options of questions[currentQ]: the render
\* throws when that question does not exist
ModalRenderThrows(info, modal) ==
    info.isOpen /\ Len(info.questions) > 0 /\ modal.currentQ >= Len(info.questions)

----------------------------------------------------------------------------
(* The state after construction: App's useState initial values, loadData     *)
(* about to run.                                                             *)

\* useState's initial modalInfo, and the only value setModalInfo is given
ClosedModal == [isOpen |-> FALSE, coords |-> JNull]

\* no parser call is under observation
NoCall == [fn |-> "none", arg |-> JUndef, returned |-> FALSE, threw |-> FALSE,
           result |-> JUndef]

InitApp ==
    /\ landmarks = << >>
    /\ baseLandmarks = << >>
    /\ isLoading = TRUE
    /\ activeIndex = 0
    /\ sidebarIndex = 0
    /\ isTransitioning = FALSE
    /\ quizModalInfo = ClosedQuiz
    /\ timers = << >>
    /\ quizModal = FreshQuizModal
    /\ crashed = FALSE
    /\ alertShown = ""
    /\ loadPc = "remote"
    /\ loadedBase = << >>
    /\ modalInfo = ClosedModal
    /\ storeAdded = << >>

\* the Tour loadData leaves in `landmarks` in environment e
loadData(e, now) ==
    LET r == RemoteAttempt(e) IN
      IF r.v.loaded THEN r.v.landmarks
      ELSE LET base == DatasetAttempt(Datasets[e.dataset]).v
           IN  OverlayCaught(OverlayBody(base, Stores[e.store], now), base).v

----------------------------------------------------------------------------
(* loadData.  While isLoading is set App renders the loading screen only,    *)
(* so no handler can run before loading ends.                                *)

\* the start of loadData: with the session parameters the artifact request
\* is sent and loadData waits for it, without them it goes to the dataset step
LoadStart ==
    /\ loadPc = "remote"
    /\ loadPc' = IF hasRequiredParams(getURLParams(Queries[env.query]))
                 THEN "fetching" ELSE "dataset"
    /\ UNCHANGED << landmarks, baseLandmarks, isLoading, loadedBase, navVars,
                    quizModalInfo, timers, quizModal, crashed, alertShown, env, parser, dialogVars >>

\* the artifact request settles: from there to loadData's first return or to
\* the dataset step
LoadRemote ==
    /\ loadPc = "fetching"
    /\ LET r == RemoteAttempt(env) IN
         IF r.threw
         THEN /\ loadPc' = "rejected"
              /\ UNCHANGED << landmarks, baseLandmarks, isLoading, loadedBase >>
         ELSE IF r.v.loaded
         THEN /\ loadedBase' = << >>
              /\ baseLandmarks' = r.v.landmarks
              /\ landmarks' = r.v.landmarks
              /\ isLoading' = FALSE
              /\ loadPc' = "done"
         ELSE /\ loadPc' = "dataset"
              /\ UNCHANGED << landmarks, baseLandmarks, isLoading, loadedBase >>
    /\ UNCHANGED << navVars, quizModalInfo, timers, quizModal, crashed, alertShown, env, parser, dialogVars >>

\* the dataset step, up to setBaseLandmarks
LoadDataset ==
    /\ loadPc = "dataset"
    /\ LET r == DatasetAttempt(Datasets[env.dataset]) IN
         IF r.threw
         THEN /\ loadPc' = "rejected"
              /\ UNCHANGED << baseLandmarks, loadedBase >>
         ELSE /\ loadedBase' = r.v
              /\ baseLandmarks' = r.v
              /\ loadPc' = "overlay"
    /\ UNCHANGED << landmarks, isLoading, navVars, quizModalInfo, timers,
                    quizModal, crashed, alertShown, env, parser, dialogVars >>

\* the overlay step: try, catch and finally
LoadOverlay(now) ==
    /\ loadPc = "overlay"
    /\ LET r == OverlayCaught(OverlayBody(loadedBase, Stores[env.store], now), loadedBase) IN
         IF r.threw
         THEN /\ loadPc' = "rejected"
              /\ UNCHANGED landmarks
         ELSE /\ landmarks' = r.v
              /\ loadPc' = "done"
    /\ isLoading' = FALSE
    /\ loadedBase' = << >>
    /\ UNCHANGED << baseLandmarks, navVars, quizModalInfo, timers,
                    quizModal, crashed, alertShown, env, parser, dialogVars >>

LoadNext ==
    \/ LoadStart
    \/ LoadRemote
    \/ LoadDataset
    \/ \E now \in NowValues : LoadOverlay(now)

----------------------------------------------------------------------------
(* Navigation intents (App) *)

\* App is past the loading screen, no render has thrown and no alert()
\* dialog is blocking the page
Rendered == ~isLoading /\ ~crashed /\ alertShown = ""

\* what no handler of the rendered app writes
loadVars == << baseLandmarks, isLoading, loadPc, loadedBase, env, parser >>

\* handleNext.transition and the body of handlePrev: start a slide to nextIndex
StartSlide(nextIndex) ==
    /\ isTransitioning' = TRUE
    /\ activeIndex' = nextIndex
    /\ timers' = timers \o SlideTimers(nextIndex)
    /\ UNCHANGED sidebarIndex

\* setQuizModalInfo({isOpen: true, ...}) and QuizModal's next render
OpenQuiz ==
    LET info == [isOpen |-> TRUE, questions |-> At(landmarks, sidebarIndex).quiz.a,
                 capIdx |-> sidebarIndex, capLen |-> Len(landmarks)]
    IN  /\ quizModalInfo' = info
        /\ crashed' = ModalRenderThrows(info, quizModal)
        /\ quizModal' = IF quizModalInfo.isOpen \/ ModalRenderThrows(info, quizModal)
                        THEN quizModal ELSE FreshQuizModal

HandleNext ==
    /\ Rendered
    /\ IF isTransitioning \/ Len(landmarks) = 0
       THEN UNCHANGED << navVars, timers, quizModalInfo, quizModal, crashed >>
       ELSE IF CurrentGated
       THEN /\ OpenQuiz
            /\ UNCHANGED << navVars, timers >>
       ELSE /\ CanSchedule
            /\ StartSlide(NextIndex(sidebarIndex, Len(landmarks)))
            /\ UNCHANGED << quizModalInfo, quizModal, crashed >>
    /\ UNCHANGED << landmarks, alertShown, loadVars, dialogVars >>

HandlePrev ==
    /\ Rendered
    /\ IF isTransitioning \/ Len(landmarks) = 0
       THEN UNCHANGED << navVars, timers >>
       ELSE /\ CanSchedule
            /\ StartSlide(PrevIndex(sidebarIndex, Len(landmarks)))
    /\ UNCHANGED << quizModalInfo, quizModal, crashed, landmarks, alertShown, loadVars, dialogVars >>

\* handleSelectLandmark without its isTransitioning check
HandleSelectLandmarkUnguarded(id) ==
    /\ Rendered
    /\ LET index == IndexOfId(id) IN
         IF index # -1 /\ index # sidebarIndex
         THEN /\ CanSchedule
              /\ isTransitioning' = TRUE
              /\ timers' = timers \o FadeTimers(index)
              /\ UNCHANGED << activeIndex, sidebarIndex >>
         ELSE UNCHANGED << navVars, timers >>
    /\ UNCHANGED << quizModalInfo, quizModal, crashed, landmarks, alertShown, loadVars, dialogVars >>

HandleSelectLandmark(id) ==
    /\ Rendered
    /\ LET index == IndexOfId(id) IN
         IF ~isTransitioning /\ index # -1 /\ index # sidebarIndex
         THEN /\ CanSchedule
              /\ isTransitioning' = TRUE
              /\ timers' = timers \o FadeTimers(index)
              /\ UNCHANGED << activeIndex, sidebarIndex >>
         ELSE UNCHANGED << navVars, timers >>
    /\ UNCHANGED << quizModalInfo, quizModal, crashed, landmarks, alertShown, loadVars, dialogVars >>

\* a completion that would be offered only for a score above 0
QuizCompleteIfPassed ==
    /\ Rendered
    /\ quizModalInfo.isOpen /\ Len(quizModalInfo.questions) > 0
    /\ quizModal.showResults /\ quizModal.score > 0
    /\ CanSchedule
    /\ quizModalInfo' = ClosedQuiz
    /\ StartSlide(NextIndex(quizModalInfo.capIdx, quizModalInfo.capLen))
    /\ UNCHANGED << quizModal, crashed, landmarks, alertShown, loadVars, dialogVars >>

\* a completion that would record on the landmark that its quiz was passed
QuizCompleteMarksPassed ==
    /\ Rendered
    /\ quizModalInfo.isOpen /\ Len(quizModalInfo.questions) > 0
    /\ quizModal.showResults
    /\ CanSchedule
    /\ quizModalInfo' = ClosedQuiz
    /\ StartSlide(NextIndex(quizModalInfo.capIdx, quizModalInfo.capLen))
    /\ landmarks' = IF InRange(landmarks, quizModalInfo.capIdx)
                    THEN [landmarks EXCEPT
                             ![quizModalInfo.capIdx + 1].block_navigation = JBool(FALSE)]
                    ELSE landmarks
    /\ UNCHANGED << quizModal, crashed, alertShown, loadVars, dialogVars >>

\* quizModalInfo.onComplete, wired to QuizModal's "Continue Your Journey"
\* button, which the results view renders
QuizComplete ==
    /\ Rendered
    /\ quizModalInfo.isOpen /\ Len(quizModalInfo.questions) > 0
    /\ quizModal.showResults
    /\ CanSchedule
    /\ quizModalInfo' = ClosedQuiz
    /\ StartSlide(NextIndex(quizModalInfo.capIdx, quizModalInfo.capLen))
    /\ UNCHANGED << quizModal, crashed, landmarks, alertShown, loadVars, dialogVars >>

----------------------------------------------------------------------------
(* QuizModal *)

QuestionShown ==
    /\ Rendered
    /\ quizModalInfo.isOpen /\ Len(quizModalInfo.questions) > 0
    /\ ~quizModal.showResults

CurrentOptions == Prop(At(quizModalInfo.questions, quizModal.currentQ), "options").a

\* question.options.findIndex(o => o.isCorrect)
CorrectOptionIndex ==
    LET P(o) == Truthy(Prop(o, "isCorrect")) IN FindIndex(CurrentOptions, P)

ModalFrame ==
    UNCHANGED << navVars, timers, quizModalInfo, crashed, landmarks, alertShown, loadVars, dialogVars >>

HandleOptionSelect(index) ==
    /\ QuestionShown
    /\ ~quizModal.isAnswered
    /\ index \in 0 .. Len(CurrentOptions) - 1
    /\ quizModal' = [quizModal EXCEPT !.selectedOptionIndex = index]
    /\ ModalFrame

CheckAnswer ==
    /\ QuestionShown
    /\ ~quizModal.isAnswered
    /\ quizModal.selectedOptionIndex # -1
    /\ quizModal' = [quizModal EXCEPT
           !.isAnswered = TRUE,
           !.score = IF quizModal.selectedOptionIndex = CorrectOptionIndex
                     THEN @ + 1 ELSE @]
    /\ ModalFrame

QuizHandleNext ==
    /\ QuestionShown
    /\ quizModal.isAnswered
    /\ quizModal' = [quizModal EXCEPT
           !.isAnswered = FALSE,
           !.selectedOptionIndex = -1,
           !.currentQ = IF quizModal.currentQ < Len(quizModalInfo.questions) - 1
                        THEN @ + 1 ELSE @,
           !.showResults = ~(quizModal.currentQ < Len(quizModalInfo.questions) - 1)]
    /\ ModalFrame

----------------------------------------------------------------------------
(* Timers *)

\* the callback that runs next: the earliest created among the timers due
DueTimer == CHOOSE k \in 1 .. Len(timers) :
                timers[k].due = 0 /\ \A j \in 1 .. k - 1 : timers[j].due # 0

RemoveAt(s, k) == SubSeq(s, 1, k - 1) \o SubSeq(s, k + 1, Len(s))

\* a setTimeout callback of handleNext.transition, handlePrev or
\* handleSelectLandmark runs
FireTimer ==
    /\ Rendered
    /\ \E k \in 1 .. Len(timers) : timers[k].due = 0
    /\ LET t == timers[DueTimer] IN
         /\ IF t.kind = "swap"
            THEN /\ sidebarIndex' = t.idx
                 /\ activeIndex' = IF t.both THEN t.idx ELSE activeIndex
                 /\ UNCHANGED isTransitioning
            ELSE /\ isTransitioning' = FALSE
                 /\ UNCHANGED << activeIndex, sidebarIndex >>
         /\ timers' = RemoveAt(timers, DueTimer)
    /\ UNCHANGED << quizModalInfo, quizModal, crashed, landmarks, alertShown, loadVars, dialogVars >>

\* the delay of the pending timer that is due first
EarliestDue == CHOOSE d \in {timers[k].due : k \in 1 .. Len(timers)} :
                   \A k \in 1 .. Len(timers) : d <= timers[k].due

\* time passes until the next pending timer is due; no timer is overdue
Tick ==
    /\ Rendered
    /\ timers # << >>
    /\ EarliestDue > 0
    /\ timers' = [k \in 1 .. Len(timers) |->
                     [timers[k] EXCEPT !.due = @ - EarliestDue]]
    /\ UNCHANGED << navVars, quizModalInfo, quizModal, crashed, landmarks, alertShown, loadVars, dialogVars >>

----------------------------------------------------------------------------
(* Upload (handleFileChange and the FileReader callbacks) *)

\* loadedData.map(...).filter(...)
CoerceUploadData(data, now) ==
    LET One(item, index) == CoerceUploadItem(item, index, now)
    IN  FlatMapIdx(data.a, One, 0)

\* CoerceUploadData on the files of the model, computed once
CoercedUploads ==
    [f \in {g \in DOMAIN UploadFiles : IsArray(UploadFiles[g].data)}, now \in NowValues |->
        CoerceUploadData(UploadFiles[f].data, now)]

CoerceUpload(f, now) == CoercedUploads[f, now]

\* the texts of the three alert() calls; the caught error's own message,
\* which ends the second one, is left out
ReadErrorAlert == "An error occurred while reading the file."

CaughtErrorAlert == "Could not load landmarks. Please check if the file is a valid JSON."

NoValidLandmarksAlert == "The uploaded JSON file contains no valid landmarks. Please ensure each landmark has a 'name', 'city', or 'title', and valid 'coordinates'."

\* the decision of reader.onload without the newLandmarks.length === 0 check
UploadOutcomeNoEmptyCheck(f, now) ==
    IF UploadFiles[f].kind \in {"empty", "invalid"} THEN "thrown"
    ELSE IF ~IsArray(UploadFiles[f].data) THEN "thrown"
    ELSE "accepted"

\* what the try block of reader.onload decides: "thrown" (caught: alert with
\* the error), "noValid" (alert, return) or "accepted"
UploadOutcome(f, now) ==
    IF UploadFiles[f].kind \in {"empty", "invalid"} THEN "thrown"
    ELSE IF ~IsArray(UploadFiles[f].data) THEN "thrown"
    ELSE IF Len(CoerceUpload(f, now)) = 0 THEN "noValid"
    ELSE "accepted"

\* an upload that would leave the position where it is
ReplaceTourKeepPosition(newLandmarks) ==
    /\ landmarks' = << INTRO_LANDMARK >> \o newLandmarks
    /\ UNCHANGED << activeIndex, sidebarIndex >>
    /\ UNCHANGED timers
    /\ UNCHANGED isTransitioning

\* an upload that would replace the whole Tour, intro included
ReplaceTourNoIntro(newLandmarks) ==
    /\ landmarks' = newLandmarks
    /\ activeIndex' = 1
    /\ sidebarIndex' = 1
    /\ UNCHANGED timers
    /\ UNCHANGED isTransitioning

\* the state reset of an accepted upload: the pending timers and
\* isTransitioning are left as they are
ReplaceTour(newLandmarks) ==
    /\ landmarks' = << INTRO_LANDMARK >> \o newLandmarks
    /\ activeIndex' = 1
    /\ sidebarIndex' = 1
    /\ UNCHANGED timers
    /\ UNCHANGED isTransitioning

HandleFileChange(f, now) ==
    /\ Rendered
    /\ IF UploadFiles[f].kind = "readError"
       THEN /\ alertShown' = ReadErrorAlert
            /\ UNCHANGED << landmarks, navVars, timers >>
       ELSE IF UploadOutcome(f, now) = "thrown"
       THEN /\ alertShown' = CaughtErrorAlert
            /\ UNCHANGED << landmarks, navVars, timers >>
       ELSE IF UploadOutcome(f, now) = "noValid"
       THEN /\ alertShown' = NoValidLandmarksAlert
            /\ UNCHANGED << landmarks, navVars, timers >>
       ELSE /\ alertShown' = ""
            /\ ReplaceTour(CoerceUpload(f, now))
    /\ UNCHANGED << quizModalInfo, quizModal, crashed, loadVars, dialogVars >>

\* the user closes the alert() dialog
DismissAlert ==
    /\ alertShown # ""
    /\ alertShown' = ""
    /\ UNCHANGED << landmarks, navVars, timers, quizModalInfo, quizModal, crashed,
                    loadVars, dialogVars >>

----------------------------------------------------------------------------
(* The add-landmark dialog (handleMapClick, handleSaveLandmark,              *)
(* handleCloseModal and the effect on [landmarks])                           *)

\* the places of the map the model clicks on
ClickCoords == {JArr(<< JNum(31), JNum(35) >>), JArr(<< JNum(30), JNum(36) >>)}

\* the names typed into the dialog
DialogNames == {JStr("Cafe"), JStr(" ")}

\* a map click that would open the dialog for the place clicked on
HandleMapClickOpens(coords) ==
    /\ Rendered
    /\ modalInfo' = [isOpen |-> TRUE, coords |-> coords]
    /\ UNCHANGED << landmarks, navVars, timers, quizModalInfo, quizModal, crashed,
                    alertShown, loadVars, storeAdded >>

\* Map's click listener calls handleMapClick, whose body is empty
HandleMapClick(coords) ==
    /\ Rendered
    /\ UNCHANGED vars

\* AddLandmarkModal renders nothing unless isOpen
AddLandmarkModalShown == Rendered /\ modalInfo.isOpen

\* the try block of handleSaveLandmark reaches setItem: the item is missing
\* or empty, or parses to something that can be spread
StoreWritable(store) ==
    \/ store.kind = "absent"
    \/ /\ store.kind = "text"
       /\ \/ store.text = ""
          \/ /\ JsonParse(store.text).ok
             /\ JsonParse(store.text).v.t \in {"array", "str"}

\* handleSaveLandmark, called by the dialog's Save button once name and
\* description are filled in, followed by the effect on [landmarks] that
\* focuses the landmark just added
HandleSaveLandmark(name, now) ==
    /\ AddLandmarkModalShown
    /\ Trim(name.s) # ""
    /\ IF modalInfo.coords = JNull
       THEN UNCHANGED << landmarks, navVars, dialogVars >>
       ELSE LET newLandmark == Landmark(now, name, modalInfo.coords, JUndef, JUndef)
                tour == Append(landmarks, newLandmark)
                P(l) == l.id = now
                newIndex == FindIndex(tour, P)
            IN  /\ landmarks' = tour
                /\ storeAdded' = IF StoreWritable(Stores[env.store]) \/ storeAdded # << >>
                                  THEN Append(storeAdded, newLandmark) ELSE storeAdded
                /\ modalInfo' = ClosedModal
                /\ activeIndex' = newIndex
                /\ sidebarIndex' = newIndex
                /\ UNCHANGED isTransitioning
    /\ UNCHANGED << timers, quizModalInfo, quizModal, crashed, alertShown, loadVars >>

\* handleCloseModal, called by the dialog's Cancel button and backdrop
HandleCloseModal ==
    /\ AddLandmarkModalShown
    /\ modalInfo' = ClosedModal
    /\ UNCHANGED << landmarks, navVars, timers, quizModalInfo, quizModal, crashed,
                    alertShown, loadVars, storeAdded >>

----------------------------------------------------------------------------
(* The controls through which the intents arrive *)

\* App renders Sidebar for landmarks[sidebarIndex] when it exists
SidebarShown == Rendered /\ InRange(landmarks, sidebarIndex)

\* "Start Journey" of the intro layout and "Next Landmark" of the main one
NextButtonEnabled == SidebarShown /\ ~isTransitioning

\* "Previous Landmark": the intro layout (landmark.id === 0) has no such
\* button and the main layout disables it for id 0
PrevButtonEnabled ==
    /\ SidebarShown
    /\ At(landmarks, sidebarIndex).id # 0
    /\ ~(isTransitioning \/ At(landmarks, sidebarIndex).id = 0)

\* Map puts a marker on every landmark after the first
MarkerIds == {landmarks[k].id : k \in 2 .. Len(landmarks)}

SidebarNext == NextButtonEnabled /\ HandleNext

SidebarPrev == PrevButtonEnabled /\ HandlePrev

MarkerClick(id) == id \in MarkerIds /\ HandleSelectLandmark(id)

----------------------------------------------------------------------------
(* Specifications *)

NavNext ==
    \/ SidebarNext
    \/ SidebarPrev
    \/ \E id \in MarkerIds : MarkerClick(id)
    \/ QuizComplete
    \/ \E index \in 0 .. 1 : HandleOptionSelect(index)
    \/ CheckAnswer
    \/ QuizHandleNext
    \/ FireTimer
    \/ Tick
    \/ \E f \in DOMAIN UploadFiles, now \in NowValues : HandleFileChange(f, now)
    \/ DismissAlert
    \/ \E coords \in ClickCoords : HandleMapClick(coords)

Next == LoadNext \/ NavNext

\* The environments of the sessions the navigation is explored in: the
\* artifact request succeeds; or there is no query string, every dataset row
\* is rejected and localStorage holds custom landmarks
SessionEnvs ==
    { e \in Envs :
        \/ /\ Queries[e.query].base_url = JStr("https://api/")
           /\ Remotes[e.remote].data = ArtifactBody(JStr(ArtifactJson))
           /\ Datasets[e.dataset].kind = "absent"
           /\ Stores[e.store].kind = "absent"
        \/ /\ Queries[e.query].token = JNull /\ Queries[e.query].artifact_id = JNull
           /\ Remotes[e.remote].kind = "networkError"
           /\ Datasets[e.dataset].rows = DatasetRowsAllRejected
           /\ Stores[e.store].text = StoreJson }

Init == InitApp /\ env \in SessionEnvs /\ parser = NoCall

\* the whole program, in a few environments
Spec == Init /\ [][Next]_vars

\* a session in which no file is uploaded
SessionNext ==
    \/ LoadNext
    \/ SidebarNext
    \/ SidebarPrev
    \/ \E id \in MarkerIds : MarkerClick(id)
    \/ QuizComplete
    \/ \E index \in 0 .. 1 : HandleOptionSelect(index)
    \/ CheckAnswer
    \/ QuizHandleNext
    \/ FireTimer
    \/ Tick
    \/ \E coords \in ClickCoords : HandleMapClick(coords)

\* the browser runs a setTimeout callback once its delay has passed, and
\* time does pass
TimersRun == WF_vars(FireTimer) /\ WF_vars(Tick)

\* the program without uploads, its timers running
SessionSpec == Init /\ [][SessionNext]_vars /\ TimersRun

LoadInit == InitApp /\ env \in Envs /\ parser = NoCall

\* loadData alone, in every environment
LoadSpec == LoadInit /\ [][LoadNext]_vars

----------------------------------------------------------------------------
(* The quiz parsers on their own: one call of parseAndValidateQuiz,          *)
(* normalizeKeys, transformUploadedQuiz or of the question transform of      *)
(* transformBuilderDataToLandmarks, on an argument drawn from bounded sets.  *)

\* the longest list of questions a parser is called on
MaxQuestions == 2

\* the lists over a set of at most MaxQuestions elements, as arrays
ListsOf(S) ==
    { JArr(q) : q \in UNION { [1 .. n -> S] : n \in 0 .. MaxQuestions } }

CanonicalOptionLists ==
    { << QuizOptionObj(JStr("True"), TRUE), QuizOptionObj(JStr("False"), FALSE) >>,
      << QuizOptionObj(JStr("A"), FALSE), QuizOptionObj(JStr("B"), TRUE) >>,
      << QuizOptionObj(JStr("A"), TRUE) >> }

\* questions of the canonical shape of types.ts
CanonicalQuestions ==
    { QuizQuestionObj(JStr(t), ty, opts) :
        t \in {"Q?", "Q2?"}, ty \in {"multiple-choice", "true-false"},
        opts \in CanonicalOptionLists }

\* questions as other producers write them: capitalised keys, and one field
\* at a time missing, of the wrong type, blank, unknown or empty
VariantQuestions ==
    LET opts == << QuizOptionObj(JStr("True"), TRUE), QuizOptionObj(JStr("False"), FALSE) >>
        Q(question, type, options) ==
            JObj(<< << "question", question >>, << "type", type >>, << "options", options >> >>)
    IN  { JObj(<< << "Question", JStr("Q?") >>, << "Type", JStr("true-false") >>,
                  << "Options", JArr(<< JObj(<< << "Text", JStr("True") >>,
                                               << "IsCorrect", JBool(TRUE) >> >>) >>) >> >>),
          JObj(<< << "Question", JStr("Q?") >>, << "question", JStr(" ") >>,
                  << "type", JStr("true-false") >>, << "options", JArr(opts) >> >>),
          Q(JStr(" "), JStr("true-false"), JArr(opts)),
          Q(JStr(""), JStr("true-false"), JArr(opts)),
          Q(JNum(1), JStr("true-false"), JArr(opts)),
          JObj(<< << "type", JStr("true-false") >>, << "options", JArr(opts) >> >>),
          Q(JStr("Q?"), JStr("essay"), JArr(opts)),
          Q(JStr("Q?"), JStr("True_False"), JArr(opts)),
          JObj(<< << "question", JStr("Q?") >>, << "options", JArr(opts) >> >>),
          Q(JStr("Q?"), JStr("multiple-choice"), JArr(<< >>)),
          Q(JStr("Q?"), JStr("multiple-choice"), JStr("A")),
          JObj(<< << "question", JStr("Q?") >>, << "type", JStr("multiple-choice") >> >>),
          Q(JStr("Q?"), JStr("multiple-choice"), JArr(<< JNull >>)),
          Q(JStr("Q?"), JStr("multiple-choice"), JArr(<< JStr("A") >>)),
          Q(JStr("Q?"), JStr("multiple-choice"),
            JArr(<< JObj(<< << "text", JStr("A") >> >>) >>)),
          Q(JStr("Q?"), JStr("multiple-choice"),
            JArr(<< JObj(<< << "text", JNum(1) >>, << "isCorrect", JBool(TRUE) >> >>) >>)),
          Q(JStr("Q?"), JStr("multiple-choice"),
            JArr(<< JObj(<< << "text", JStr("A") >>, << "isCorrect", JStr("true") >> >>) >>)),
          JNull,
          JStr("Q?") }

\* the arguments of parseAndValidateQuiz: lists of questions, JSON texts and
\* values that are neither
LegacyInputs ==
    ListsOf(CanonicalQuestions \cup VariantQuestions)
        \cup { JUndef, JNull, JStr(""), JStr("oops"), JStr("[oops]"), JStr("[]"),
               JStr("[null]"), JStr("30"), JStr(LegacyQuizJson), JNum(0), JNum(30),
               JBool(TRUE), JObj(<< >>),
               JObj(<< << "Question", JStr("Q?") >> >>) }

\* the arguments of normalizeKeys: the same values, and objects nested in
\* objects
JsonInputs ==
    LegacyInputs
        \cup { JObj(<< << "Options", q >>, << "options", JArr(<< q >>) >> >>) :
                 q \in VariantQuestions }

TrueFalseAnswers ==
    {"true", "True", "TRUE", "false", "False", "FALSE", " True ", "maybe"}

\* questions of the builder format (BuilderQuestion of utils/dataTransform)
BuilderQuestionSet ==
    { JObj(<< << "text", JStr("Q1?") >>, << "type", JStr("true_false") >>,
              << "answer", JStr(a) >> >>) : a \in TrueFalseAnswers }
    \cup { JObj(<< << "text", JStr("Q2?") >>, << "type", JStr("multiple_choice") >>,
                   << "options", JArr(<< JStr("A"), JStr("B") >>) >>,
                   << "answer", JStr(a) >> >>) : a \in {"A", "B", "C"} }
    \cup { JObj(<< << "text", JStr("Q4?") >>, << "type", JStr("multiple_choice") >>,
                   << "answer", JStr("A") >> >>),
           JObj(<< << "text", JStr("Q5?") >>, << "type", JStr("multiple_choice") >>,
                   << "options", JArr(<< >>) >>, << "answer", JStr("A") >> >>),
           JObj(<< << "text", JStr("Q3?") >>, << "type", JStr("short_answer") >>,
                   << "answer", JStr("x") >> >>) }

BuilderInputs == ListsOf(BuilderQuestionSet)

Call(fn, arg) ==
    [fn |-> fn, arg |-> arg, returned |-> FALSE, threw |-> FALSE, result |-> JUndef]

ParserCalls ==
    { Call("parseAndValidateQuiz", x) : x \in LegacyInputs }
        \cup { Call("normalizeKeys", x) : x \in JsonInputs }
        \cup { Call("transformUploadedQuiz", x) : x \in BuilderInputs }
        \cup { Call("transformQuestions", x) : x \in BuilderInputs }

\* the quiz transformBuilderDataToLandmarks gives a location with these
\* questions
transformQuestions(questions) ==
    LET r == BuilderLocationToLandmark(
                 JObj(<< << "title", JStr("Amman") >>,
                         << "coordinates", JArr(<< JNum(31), JNum(35) >>) >>,
                         << "questions", questions >> >>), 0)
    IN  IF r.threw THEN Threw ELSE Returned(r.v[1].quiz)

Return(v) ==
    /\ parser' = [parser EXCEPT !.returned = TRUE, !.result = v]
    /\ UNCHANGED << landmarks, baseLandmarks, isLoading, navVars, quizModalInfo, timers,
                    quizModal, crashed, alertShown, loadPc, loadedBase, env, dialogVars >>

ParseAndValidateQuizCall ==
    /\ parser.fn = "parseAndValidateQuiz" /\ ~parser.returned
    /\ Return(parseAndValidateQuiz(parser.arg))

NormalizeKeysCall ==
    /\ parser.fn = "normalizeKeys" /\ ~parser.returned
    /\ Return(normalizeKeys(parser.arg))

TransformUploadedQuizCall ==
    /\ parser.fn = "transformUploadedQuiz" /\ ~parser.returned
    /\ Return(transformUploadedQuiz(parser.arg))

TransformQuestionsCall ==
    /\ parser.fn = "transformQuestions" /\ ~parser.returned
    /\ LET r == transformQuestions(parser.arg)
       IN  IF r.threw
           THEN /\ parser' = [parser EXCEPT !.returned = TRUE, !.threw = TRUE]
                /\ UNCHANGED << landmarks, baseLandmarks, isLoading, navVars,
                                quizModalInfo, timers, quizModal, crashed, alertShown,
                                loadPc, loadedBase, env, dialogVars >>
           ELSE Return(r.v)

ParserNext ==
    \/ ParseAndValidateQuizCall
    \/ NormalizeKeysCall
    \/ TransformUploadedQuizCall
    \/ TransformQuestionsCall

ParserInit ==
    /\ InitApp
    /\ env = [query |-> 1, remote |-> 1, dataset |-> 1, store |-> 1]
    /\ parser \in ParserCalls

\* one call of a parser, on every argument
ParserSpec == ParserInit /\ [][ParserNext]_vars

----------------------------------------------------------------------------
(* The QuizGate on every quiz a parser accepts: a loaded Tour of the intro   *)
(* and one gated landmark, whose quiz is the result of one of the parsers    *)
(* on one of its arguments, the sidebar on that landmark.                    *)

\* the quizzes the parsers give a landmark: what parseAndValidateQuiz,
\* transformUploadedQuiz and transformBuilderDataToLandmarks return when it
\* is a quiz
AcceptedQuizzes ==
    LET results ==
            { parseAndValidateQuiz(x) : x \in LegacyInputs }
                \cup { transformUploadedQuiz(x) : x \in BuilderInputs }
                \cup { transformQuestions(x).v :
                          x \in {y \in BuilderInputs : ~transformQuestions(y).threw} }
    IN  { q \in results : IsArray(q) /\ Len(q.a) > 0 }

GatedTour(quiz) ==
    << INTRO_LANDMARK,
       Landmark(1, JStr("Amman"), JArr(<< JNum(31), JNum(35) >>), quiz, JBool(TRUE)) >>

QuizInit ==
    /\ \E quiz \in AcceptedQuizzes :
           /\ landmarks = GatedTour(quiz)
           /\ baseLandmarks = GatedTour(quiz)
    /\ isLoading = FALSE
    /\ activeIndex = 1
    /\ sidebarIndex = 1
    /\ isTransitioning = FALSE
    /\ quizModalInfo = ClosedQuiz
    /\ timers = << >>
    /\ quizModal = FreshQuizModal
    /\ crashed = FALSE
    /\ alertShown = ""
    /\ loadPc = "done"
    /\ loadedBase = << >>
    /\ env = [query |-> 1, remote |-> 1, dataset |-> 1, store |-> 1]
    /\ parser = NoCall
    /\ modalInfo = ClosedModal
    /\ storeAdded = << >>

QuizNext ==
    \/ SidebarNext
    \/ QuizComplete
    \/ \E index \in 0 .. 1 : HandleOptionSelect(index)
    \/ CheckAnswer
    \/ QuizHandleNext
    \/ FireTimer
    \/ Tick

\* the QuizGate of one landmark, for every accepted quiz
QuizSpec == QuizInit /\ [][QuizNext]_vars

\* a loaded Tour with two gated landmarks: Amman with a quiz of two
\* questions, Petra with a quiz of one
TwoGatesTour ==
    LET q1(a) == JObj(<< << "text", JStr("Q1?") >>, << "type", JStr("true_false") >>,
                         << "answer", JStr(a) >> >>)
        q2 == JObj(<< << "text", JStr("Q2?") >>, << "type", JStr("multiple_choice") >>,
                      << "options", JArr(<< JStr("A"), JStr("B") >>) >>,
                      << "answer", JStr("B") >> >>)
    IN  << INTRO_LANDMARK,
           Landmark(1, JStr("Amman"), JArr(<< JNum(31), JNum(35) >>),
                    transformUploadedQuiz(JArr(<< q1("true"), q2 >>)), JBool(TRUE)),
           Landmark(2, JStr("Petra"), JArr(<< JNum(30), JNum(35) >>),
                    transformUploadedQuiz(JArr(<< q1("false") >>)), JBool(TRUE)) >>

TwoGatesInit ==
    /\ landmarks = TwoGatesTour
    /\ baseLandmarks = TwoGatesTour
    /\ isLoading = FALSE
    /\ activeIndex = 0
    /\ sidebarIndex = 0
    /\ isTransitioning = FALSE
    /\ quizModalInfo = ClosedQuiz
    /\ timers = << >>
    /\ quizModal = FreshQuizModal
    /\ crashed = FALSE
    /\ alertShown = ""
    /\ loadPc = "done"
    /\ loadedBase = << >>
    /\ env = [query |-> 1, remote |-> 1, dataset |-> 1, store |-> 1]
    /\ parser = NoCall
    /\ modalInfo = ClosedModal
    /\ storeAdded = << >>

\* navigation and the QuizGate on a Tour with two gated landmarks
TwoGatesSpec == TwoGatesInit /\ [][NavNext]_vars

----------------------------------------------------------------------------
(* Quiz submission (utils/quizSubmission) on its own: one call of            *)
(* submitQuizResults, for every query string, on submission data that        *)
(* JSON.stringify accepts or rejects, with the request settling in every way *)

\* how fetch settles: it rejects, or resolves with a response of some status
FetchOutcomes ==
    {[kind |-> "networkError", status |-> 0]}
        \cup {[kind |-> "response", status |-> st] :
                 st \in {200, 201, 204, 299, 199, 300, 304, 400, 401, 404, 500}}

\* Response.ok
ResponseOk(status) == status >= 200 /\ status <= 299

\* the submission data: the score, and whether JSON.stringify throws on it
SubmissionData == [correctAnswers : 0 .. 2, circular : BOOLEAN]

SubmitCalls ==
    { Call("submitQuizResults", [data |-> d, outcome |-> o]) :
        d \in SubmissionData, o \in FetchOutcomes }

\* the try block of submitQuizResults
SubmitBody(data, outcome) ==
    IF data.circular THEN Threw
    ELSE IF outcome.kind = "networkError" THEN Threw
    ELSE IF ~ResponseOk(outcome.status) THEN Threw
    ELSE Returned(JBool(TRUE))

\* submitQuizResults without its catch clause
SubmitUncaught(r) == r

\* catch (error) of submitQuizResults
SubmitCaught(r) == IF r.threw THEN Returned(JBool(FALSE)) ELSE r

submitQuizResults(query, data, outcome) ==
    LET urlParams == getURLParams(query)
    IN  IF ~Truthy(urlParams.token) \/ ~Truthy(urlParams.artifactId)
              \/ ~Truthy(urlParams.baseUrl)
        THEN Returned(JBool(FALSE))
        ELSE SubmitCaught(SubmitBody(data, outcome))

\* the promise of submitQuizResults settles
SubmitQuizResultsCall ==
    /\ parser.fn = "submitQuizResults" /\ ~parser.returned
    /\ LET r == submitQuizResults(Queries[env.query], parser.arg.data, parser.arg.outcome)
       IN  IF r.threw
           THEN /\ parser' = [parser EXCEPT !.returned = TRUE, !.threw = TRUE]
                /\ UNCHANGED << landmarks, baseLandmarks, isLoading, navVars,
                                quizModalInfo, timers, quizModal, crashed, alertShown,
                                loadPc, loadedBase, env, dialogVars >>
           ELSE Return(r.v)

SubmitInit ==
    /\ InitApp
    /\ env \in {e \in Envs : e.remote = 1 /\ e.dataset = 1 /\ e.store = 1}
    /\ parser \in SubmitCalls

\* one call of submitQuizResults
SubmitSpec == SubmitInit /\ [][SubmitQuizResultsCall]_vars

----------------------------------------------------------------------------
(* Properties *)

\* a landmark with a non-empty quiz and block_navigation = true
HasBlockingQuiz(l) ==
    /\ Truthy(l.quiz) /\ Len(l.quiz.a) > 0
    /\ Truthy(l.block_navigation)

\* the sidebar shows a landmark i >= 1 with a blocking quiz
AtBlockingLandmark ==
    /\ sidebarIndex >= 1
    /\ InRange(landmarks, sidebarIndex)
    /\ HasBlockingQuiz(At(landmarks, sidebarIndex))

\* a step that is one of the navigation intents Next, Previous, JumpTo
NavigationIntent ==
    SidebarNext \/ SidebarPrev \/ \E id \in MarkerIds : MarkerClick(id)

\* C1: from a landmark i >= 1 with a non-empty quiz and block_navigation =
\* true, Next opens the QuizGate and changes neither index; for as long as
\* the QuizGate stays open the indices stay at i and the gate's questions
\* stay the same, also under a repeated Next.
C1_GateHoldsThePosition ==
    [][/\ (SidebarNext /\ AtBlockingLandmark) =>
              (quizModalInfo'.isOpen /\ UNCHANGED << sidebarIndex, activeIndex >>)
       /\ (quizModalInfo.isOpen /\ quizModalInfo'.isOpen) =>
              /\ UNCHANGED << sidebarIndex, activeIndex >>
              /\ quizModalInfo'.questions = quizModalInfo.questions]_vars

\* C2: while the QuizGate is open, Next, Previous and JumpTo change neither
\* the sidebar index, the active index nor the Transitioning flag, and
\* schedule no timer.
C2_GateRejectsIntents ==
    [][(quizModalInfo.isOpen /\ NavigationIntent) =>
           UNCHANGED << sidebarIndex, activeIndex, isTransitioning, timers >>]_vars

\* C3: while isTransitioning is set, handleNext, handlePrev and
\* handleSelectLandmark leave the sidebar index, the active index, the Tour
\* and the QuizGate unchanged and schedule no timer.
C3_TransitioningIgnoresIntents ==
    [][(isTransitioning /\ (\/ HandleNext
                            \/ HandlePrev
                            \/ \E id \in MarkerIds : HandleSelectLandmark(id))) =>
           UNCHANGED << sidebarIndex, activeIndex, landmarks, quizModalInfo, timers >>]_vars

\* a marker is clicked while a transition is in flight, its timers pending
C3_Witness ==
    /\ isTransitioning /\ timers # << >>
    /\ ENABLED (\E id \in MarkerIds : MarkerClick(id))

\* C4: an upload that replaces the Tour clears the timers that are
\* outstanding, so that none of them fires on the replaced Tour.
C4_UploadClearsTimers ==
    [][(\E f \in DOMAIN UploadFiles, now \in NowValues :
            HandleFileChange(f, now) /\ UploadOutcome(f, now) = "accepted") =>
           timers' = << >>]_vars

\* C5: once the results view of an open QuizGate is reached, completion can
\* be signaled whatever the score; signaling it closes the QuizGate and
\* starts the deferred Next, a slide to (i + 1) mod len for the index i and
\* the Tour length len at which Next was deferred.
C5_CompletionWhateverScore ==
    /\ []((Rendered /\ CanSchedule /\ quizModalInfo.isOpen /\ quizModal.showResults)
              => ENABLED QuizComplete)
    /\ [][QuizComplete =>
              LET target == (quizModalInfo.capIdx + 1) % quizModalInfo.capLen IN
                /\ ~quizModalInfo'.isOpen
                /\ isTransitioning'
                /\ activeIndex' = target
                /\ \E k \in 1 .. Len(timers') :
                       /\ timers'[k].kind = "swap" /\ timers'[k].idx = target
                       /\ timers'[k].due = SlideDuration]_vars

\* a quiz was completed with no correct answer: the QuizGate is closed, the
\* dialog still holds its results with score 0, the deferred slide runs
C5_Witness ==
    /\ ~quizModalInfo.isOpen
    /\ quizModal.showResults /\ quizModal.score = 0
    /\ isTransitioning /\ timers # << >>

C7_GateExactlyOnBlockedNext ==
    [][/\ (~quizModalInfo.isOpen /\ quizModalInfo'.isOpen) =>
              (SidebarNext /\ AtBlockingLandmark)
       /\ (SidebarNext /\ AtBlockingLandmark) => quizModalInfo'.isOpen
       /\ (SidebarNext /\ ~AtBlockingLandmark) =>
              (isTransitioning' /\ UNCHANGED quizModalInfo)
       /\ SidebarPrev => UNCHANGED quizModalInfo]_vars

\* C8: JumpTo(id) changes nothing when id is the id of the current landmark
\* or a transition is in flight; otherwise it leaves the QuizGate as it is
\* and schedules the swap of both indices to the position of the landmark
\* with that id.
C8_JumpTo ==
    [][\A id \in MarkerIds :
           (MarkerClick(id) /\ InRange(landmarks, sidebarIndex)) =>
               IF isTransitioning \/ At(landmarks, sidebarIndex).id = id
               THEN UNCHANGED << sidebarIndex, activeIndex, isTransitioning, timers,
                                 quizModalInfo >>
               ELSE /\ UNCHANGED quizModalInfo
                    /\ isTransitioning'
                    /\ \E k \in 1 .. Len(timers') :
                           /\ timers'[k].kind = "swap" /\ timers'[k].both
                           /\ At(landmarks, timers'[k].idx).id = id]_vars

\* what the upload promises to accept of a record: an object with a
\* non-blank name, city or title and two finite coordinates
AcceptableRecord(item) ==
    /\ TypeOf(item) = "object" /\ item.t # "null"
    /\ ~InvalidName(Or(Or(Prop(item, "name"), Prop(item, "city")), Prop(item, "title")))
    /\ Truthy(ProcessCoords(Or(Prop(item, "coords"), Prop(item, "coordinates"))))

\* the file's content is not a JSON array, or is one without a valid record
NoValidRecord(f) ==
    \/ UploadFiles[f].kind # "json"
    \/ ~IsArray(UploadFiles[f].data)
    \/ \A k \in 1 .. Len(UploadFiles[f].data.a) : ~AcceptableRecord(UploadFiles[f].data.a[k])

\* C9: the upload of a file that is not a JSON array, or of an array with
\* no valid record, shows a message and leaves the Tour, the sidebar index,
\* the active index and isTransitioning as they were.
C9_RejectedUploadKeepsTour ==
    [][\A f \in DOMAIN UploadFiles, now \in NowValues :
           (HandleFileChange(f, now) /\ NoValidRecord(f)) =>
               /\ alertShown' # ""
               /\ UNCHANGED << landmarks, sidebarIndex, activeIndex, isTransitioning >>]_vars

\* an array without a valid record was uploaded to a loaded Tour: the
\* rejection is on screen
C9_Witness ==
    /\ alertShown = NoValidLandmarksAlert
    /\ Len(landmarks) > 1

\* C10: loadData never rejects; when it has returned, isLoading is cleared
\* and the Tour is not empty, whatever the query string, the artifact
\* request, the dataset API and localStorage do.
C10_LoaderNeverFails ==
    /\ loadPc \in {"remote", "fetching", "dataset", "overlay", "done"}
    /\ loadPc = "done" => (~isLoading /\ Len(landmarks) > 0)
    /\ loadPc # "done" => isLoading

\* loading ended although the dataset API threw and localStorage was denied
C10_Witness ==
    /\ loadPc = "done" /\ ~isLoading
    /\ Datasets[env.dataset].kind = "throws"
    /\ Stores[env.store].kind = "denied"
    /\ landmarks = FALLBACK_LANDMARKS

\* the coerced entries of the persisted overlay: those of a store that is
\* present and holds the JSON text of an array, none otherwise
PersistedOverlay(store, now) ==
    LET One(item, k) == CoerceOverlayItem(item, now)
    IN  IF store.kind = "text" /\ JsonParse(store.text).ok
             /\ IsArray(JsonParse(store.text).v)
        THEN FlatMapIdx(JsonParse(store.text).v.a, One, 0)
        ELSE << >>

\* C11: whichever base Tour loadData selected (remote artifact, dataset or
\* built-in fallback), the Tour it leaves is that base Tour followed by the
\* coerced entries of the persisted overlay.
C11_OverlayAlwaysAppended ==
    loadPc = "done" =>
        \E now \in NowValues :
            landmarks = baseLandmarks \o PersistedOverlay(Stores[env.store], now)

\* the session parameters are present and the artifact request answers with
\* artifact_data holding the JSON text of a non-empty array
RemoteYieldedArray(e) ==
    LET data == Remotes[e.remote].data
        parsed == JsonParse(JsString(Prop(data, "artifact_data")))
    IN  /\ hasRequiredParams(getURLParams(Queries[e.query]))
        /\ Remotes[e.remote].kind = "body"
        /\ Truthy(Prop(data, "artifact_data"))
        /\ parsed.ok /\ IsArray(parsed.v) /\ Len(parsed.v.a) > 0

\* a step that calls the dataset API (getDataset, readAll)
DatasetCalled == LoadDataset /\ Datasets[env.dataset].kind # "absent"

\* C12: the dataset API is not called while the artifact request is in
\* flight; loadData reaches the dataset step only from its start, when the
\* request is skipped, or from the settled request; and the dataset API is
\* never called once the remote artifact has yielded a non-empty array.
C12_SequentialShortCircuit ==
    /\ [](loadPc = "fetching" => ~ENABLED DatasetCalled)
    /\ [][/\ (loadPc' = "dataset" /\ loadPc # "dataset") =>
                 \/ loadPc = "fetching"
                 \/ /\ loadPc = "remote"
                    /\ ~hasRequiredParams(getURLParams(Queries[env.query]))
          /\ DatasetCalled => ~RemoteYieldedArray(env)]_vars

\* a name a landmark can be shown under: a string that is not blank
UsableName(v) == TypeOf(v) = "string" /\ Trim(v.s) # ""

\* two coordinates that are, or convert to, finite numbers
TwoFiniteCoords(c) ==
    /\ IsArray(c) /\ Len(c.a) = 2
    /\ \A i \in 1 .. 2 : c.a[i].t # "null" /\ IsFinite(ToNumber(c.a[i]))

\* the name and the coordinates each coercer reads of a record
RecordName(path, item) ==
    CASE path = "remote"  -> Prop(item, "title")
      [] path = "dataset" -> Prop(item, "city")
      [] path = "overlay" -> Prop(item, "name")
      [] OTHER -> Or(Or(Prop(item, "name"), Prop(item, "city")), Prop(item, "title"))

RecordCoords(path, item) ==
    CASE path = "overlay" -> Prop(item, "coords")
      [] path = "upload"  -> Or(Prop(item, "coords"), Prop(item, "coordinates"))
      [] OTHER -> Prop(item, "coordinates")

\* a record its coercer has to keep
UsableRecord(path, item) ==
    /\ item.t = "object"
    /\ UsableName(RecordName(path, item))
    /\ TwoFiniteCoords(RecordCoords(path, item))

\* the names of the usable records of a batch, in the order of the batch
UsableNames(path, items) ==
    LET One(item, k) == IF UsableRecord(path, item)
                        THEN << RecordName(path, item) >> ELSE << >>
    IN  FlatMapIdx(items, One, 0)

NamesOf(ls) == [i \in 1 .. Len(ls) |-> ls[i].name]

\* the artifact request gave a Tour, or would have but for a raising coercer
RemoteSelected(e) == RemoteYieldedArray(e)

\* the dataset API gave rows, and the remote artifact was not selected
DatasetSelected(e) ==
    /\ ~RemoteSelected(e)
    /\ Datasets[e.dataset].kind = "rows"
    /\ IsArray(Datasets[e.dataset].rows) /\ Len(Datasets[e.dataset].rows.a) > 0

\* C13: each of the four coercers leaves out the records without a usable
\* name or without two finite coordinates, produces the other records of
\* the batch in order, and does not raise: the remote-artifact, dataset and
\* overlay coercers as loadData applies them, the upload coercer on every
\* uploaded array.
C13_InvalidRecordsLeftOut ==
    /\ (loadPc = "done" /\ RemoteSelected(env)) =>
           NamesOf(baseLandmarks) = << INTRO_LANDMARK.name >> \o
               UsableNames("remote", JsonParse(JsString(Prop(Remotes[env.remote].data,
                                                           "artifact_data"))).v.a)
    /\ (loadPc \in {"overlay", "done"} /\ DatasetSelected(env)) =>
           NamesOf(baseLandmarks) = << INTRO_LANDMARK.name >> \o
               UsableNames("dataset", Datasets[env.dataset].rows.a)
    /\ (loadPc = "done" /\ ~RemoteSelected(env) /\ Stores[env.store].kind = "text"
            /\ JsonParse(Stores[env.store].text).ok
            /\ IsArray(JsonParse(Stores[env.store].text).v)) =>
           NamesOf(landmarks) = NamesOf(baseLandmarks) \o
               UsableNames("overlay", JsonParse(Stores[env.store].text).v.a)
    /\ \A f \in DOMAIN UploadFiles, now \in NowValues :
           (UploadFiles[f].kind = "json" /\ IsArray(UploadFiles[f].data)) =>
               NamesOf(CoerceUpload(f, now)) = UsableNames("upload", UploadFiles[f].data.a)

\* every row of the batch is an object with a city
RowsHaveCity(rows) ==
    \A i \in 1 .. Len(rows) : rows[i].t = "object" /\ UsableName(Prop(rows[i], "city"))

\* the converted coordinates of the rows whose coordinates are a 2-element
\* array of non-null entries that convert to finite numbers, in row order
AcceptedCoords(rows) ==
    LET One(item, k) ==
            IF TwoFiniteCoords(Prop(item, "coordinates"))
            THEN << [name |-> Prop(item, "city"),
                     coords |-> JArr(<< ToNumber(Prop(item, "coordinates").a[1]),
                                        ToNumber(Prop(item, "coordinates").a[2]) >>)] >>
            ELSE << >>
    IN  FlatMapIdx(rows, One, 0)

NamesAndCoordsOf(ls) == [i \in 1 .. Len(ls) |-> [name |-> ls[i].name, coords |-> ls[i].coords]]

\* C14: of a batch of dataset rows (each with its city) the coercer loads
\* exactly the rows whose coordinates are a 2-element array of non-null
\* entries that convert to finite numbers, with the converted numbers as
\* coords and in row order; the other rows are dropped and do not stop the
\* batch.
C14_DatasetCoordinates ==
    (loadPc \in {"overlay", "done"} /\ DatasetSelected(env)
         /\ RowsHaveCity(Datasets[env.dataset].rows.a)) =>
        NamesAndCoordsOf(baseLandmarks) =
            NamesAndCoordsOf(<< INTRO_LANDMARK >>) \o AcceptedCoords(Datasets[env.dataset].rows.a)

\* the rows of many shapes are loaded: of the eight rows the two with
\* convertible coordinates are in the Tour, converted
C14_Witness ==
    /\ loadPc = "done"
    /\ Datasets[env.dataset].rows = DatasetRowsShapes
    /\ NamesAndCoordsOf(baseLandmarks) =
           << [name |-> INTRO_LANDMARK.name, coords |-> INTRO_LANDMARK.coords],
              [name |-> JStr("Blank"), coords |-> JArr(<< JNum(0), JNum(1) >>)],
              [name |-> JStr("Quizzed"), coords |-> JArr(<< JNum(32), JNum(35) >>)] >>

\* every record of the batch is usable, so that only a quiz can be at fault
AllUsable(path, items) == \A i \in 1 .. Len(items) : UsableRecord(path, items[i])

\* a landmark has no quiz, or a non-empty list of well-formed questions
QuizAbsentOrWellFormed(l) ==
    l.quiz = JUndef \/ (isValidQuizQuestionArray(l.quiz) /\ Len(l.quiz.a) > 0)

\* C15: on every ingestion path a record with malformed quiz data is loaded
\* all the same, without quiz, and so is the rest of its batch: of a batch
\* of usable records every record is in the Tour, whatever its quiz data,
\* and every loaded landmark has no quiz or a well-formed one.
C15_MalformedQuizKeepsLandmark ==
    /\ (loadPc = "done" /\ RemoteSelected(env)
            /\ AllUsable("remote", JsonParse(JsString(Prop(Remotes[env.remote].data,
                                                         "artifact_data"))).v.a)) =>
           NamesOf(baseLandmarks) = << INTRO_LANDMARK.name >> \o
               UsableNames("remote", JsonParse(JsString(Prop(Remotes[env.remote].data,
                                                           "artifact_data"))).v.a)
    /\ (loadPc \in {"overlay", "done"} /\ DatasetSelected(env)
            /\ RowsHaveCity(Datasets[env.dataset].rows.a)) =>
           NamesOf(baseLandmarks) = << INTRO_LANDMARK.name >> \o
               UsableNames("dataset", Datasets[env.dataset].rows.a)
    /\ (loadPc = "done" /\ ~RemoteSelected(env) /\ Stores[env.store].kind = "text"
            /\ JsonParse(Stores[env.store].text).ok
            /\ IsArray(JsonParse(Stores[env.store].text).v)) =>
           NamesOf(landmarks) = NamesOf(baseLandmarks) \o
               UsableNames("overlay", JsonParse(Stores[env.store].text).v.a)
    /\ \A f \in DOMAIN UploadFiles, now \in NowValues :
           (UploadFiles[f].kind = "json" /\ IsArray(UploadFiles[f].data)) =>
               /\ NamesOf(CoerceUpload(f, now)) = UsableNames("upload", UploadFiles[f].data.a)
               /\ \A i \in 1 .. Len(CoerceUpload(f, now)) :
                      QuizAbsentOrWellFormed(CoerceUpload(f, now)[i])
    /\ \A i \in 1 .. Len(landmarks) : QuizAbsentOrWellFormed(landmarks[i])

\* a question as the legacy parser has to require it: non-empty string text,
\* one of the two types, a non-empty array of {text: string, isCorrect: bool}
WellFormedQuestion(q) ==
    /\ q.t = "object"
    /\ Prop(q, "question").t = "string" /\ Trim(Prop(q, "question").s) # ""
    /\ Prop(q, "type") \in {JStr("multiple-choice"), JStr("true-false")}
    /\ Prop(q, "options").t = "array" /\ Len(Prop(q, "options").a) > 0
    /\ \A i \in 1 .. Len(Prop(q, "options").a) :
           LET o == Prop(q, "options").a[i]
           IN  o.t = "object" /\ Prop(o, "text").t = "string"
                   /\ Prop(o, "isCorrect").t = "boolean"

\* the list a legacy argument stands for: itself, or what its JSON text holds
LegacyList(arg) == IF arg.t = "string" THEN JsonParse(arg.s).v ELSE arg

\* C16: the legacy quiz parser returns a quiz only when every question of
\* its argument is well formed (non-empty string text, one of the two
\* types, a non-empty options array of {text: string, isCorrect: boolean});
\* the quiz has all the questions of the argument, so one question at fault
\* discards the whole quiz, and every question returned has an option.
C16_LegacyParserValidates ==
    (parser.fn = "parseAndValidateQuiz" /\ parser.returned /\ parser.result # JUndef) =>
        /\ IsArray(parser.result) /\ Len(parser.result.a) > 0
        /\ Len(parser.result.a) = Len(LegacyList(parser.arg).a)
        /\ \A i \in 1 .. Len(parser.result.a) : WellFormedQuestion(parser.result.a[i])

\* a non-empty list of questions of the canonical shape
CanonicalQuiz(v) == v \in ListsOf(CanonicalQuestions) /\ Len(v.a) > 0

\* C17: on a non-empty list of canonical QuizQuestions the legacy quiz
\* parser returns the list itself, and parsing what it returned returns the
\* same again.
C17_LegacyParserIdentity ==
    (parser.fn = "parseAndValidateQuiz" /\ parser.returned /\ CanonicalQuiz(parser.arg)) =>
        /\ parser.result = parser.arg
        /\ parseAndValidateQuiz(parser.result) = parser.result

\* the parser returned a canonical quiz of two different questions
C17_Witness ==
    /\ parser.fn = "parseAndValidateQuiz" /\ parser.returned
    /\ CanonicalQuiz(parser.arg) /\ Len(parser.arg.a) = 2
    /\ parser.arg.a[1] # parser.arg.a[2]
    /\ parser.result = parser.arg

\* the keys that start with an upper-case character, of the keys the model
\* uses
StartsUpperCase(key) == key \in {"Question", "Type", "Options", "Text", "IsCorrect"}

RECURSIVE KeysLowerFirst(_)
\* every object key of a JSON value, at any depth, starts with a lower-case
\* character
KeysLowerFirst(v) ==
    CASE v.t = "array"  -> \A i \in 1 .. Len(v.a) : KeysLowerFirst(v.a[i])
      [] v.t = "object" -> \A i \in 1 .. Len(v.o) :
                               ~StartsUpperCase(v.o[i][1]) /\ KeysLowerFirst(v.o[i][2])
      [] OTHER          -> TRUE

\* C18: normalizeKeys is idempotent, normalizing what it returned returns
\* the same again, and it returns its argument when every object key of the
\* argument starts with a lower-case character.
C18_NormalizerIdempotent ==
    (parser.fn = "normalizeKeys" /\ parser.returned) =>
        /\ normalizeKeys(parser.result) = parser.result
        /\ KeysLowerFirst(parser.arg) => parser.result = parser.arg

\* normalizeKeys returned for an object with nested capitalised keys, two of
\* which fall on the same key: the result differs from the argument
C18_Witness ==
    /\ parser.fn = "normalizeKeys" /\ parser.returned
    /\ parser.arg.t = "object" /\ ~KeysLowerFirst(parser.arg)
    /\ Len(parser.result.o) < Len(parser.arg.o)
    /\ KeysLowerFirst(parser.result)

\* the spellings of an answer that differ from it in letter case only
CaseVariants(a) ==
    IF a \in {"true", "True", "TRUE"} THEN {"true", "True", "TRUE"}
    ELSE IF a \in {"false", "False", "FALSE"} THEN {"false", "False", "FALSE"}
    ELSE {a}

\* the builder-format parser named fn, applied to a list of questions
BuilderParse(fn, questions) ==
    IF fn = "transformUploadedQuiz" THEN transformUploadedQuiz(questions)
    ELSE transformQuestions(questions).v

\* the list with the answer of its k-th question replaced
WithAnswer(questions, k, a) ==
    JArr([i \in 1 .. Len(questions.a) |->
             IF i = k THEN JObj(SetProp(questions.a[i].o, "answer", JStr(a)))
             ELSE questions.a[i]])

\* C19: for both builder-format parsers the result depends on the answer of
\* a true_false question only up to letter case, and a single true_false
\* question whose answer spells 'true' becomes the two-option question
\* [{True, isCorrect: true}, {False, isCorrect: false}].
C19_TrueFalseCaseInsensitive ==
    (parser.fn \in {"transformUploadedQuiz", "transformQuestions"}
         /\ parser.returned /\ ~parser.threw) =>
        \A k \in 1 .. Len(parser.arg.a) :
            LET q == parser.arg.a[k] IN
            Prop(q, "type") = JStr("true_false") =>
                /\ \A a \in CaseVariants(Prop(q, "answer").s) :
                       BuilderParse(parser.fn, WithAnswer(parser.arg, k, a)) = parser.result
                /\ (Len(parser.arg.a) = 1 /\ Prop(q, "answer").s \in {"true", "True", "TRUE"}) =>
                       parser.result =
                           JArr(<< QuizQuestionObj(Prop(q, "text"), "true-false",
                                       << QuizOptionObj(JStr("True"), TRUE),
                                          QuizOptionObj(JStr("False"), FALSE) >>) >>)

\* a true_false question answered 'TRUE' was parsed: True is the correct
\* option
C19_Witness ==
    /\ parser.fn \in {"transformUploadedQuiz", "transformQuestions"} /\ parser.returned
    /\ Len(parser.arg.a) = 1
    /\ Prop(parser.arg.a[1], "type") = JStr("true_false")
    /\ Prop(parser.arg.a[1], "answer") = JStr("TRUE")
    /\ Prop(Prop(parser.result.a[1], "options").a[1], "isCorrect") = JBool(TRUE)

\* the texts of the questions of a list that satisfy Keep, in list order
TextsKept(questions, Keep(_)) ==
    LET One(q, k) == IF Keep(q) THEN << Prop(q, "text") >> ELSE << >>
    IN  FlatMapIdx(questions, One, 0)

\* the texts of the questions of a quiz, none for no quiz
QuizTexts(quiz) ==
    IF quiz = JUndef THEN << >>
    ELSE [i \in 1 .. Len(quiz.a) |-> Prop(quiz.a[i], "question")]

NotShortAnswer(q) == Prop(q, "type") # JStr("short_answer")

\* neither a short_answer question nor a multiple_choice question without
\* options
Supported(q) ==
    /\ NotShortAnswer(q)
    /\ ~(Prop(q, "type") = JStr("multiple_choice") /\ Prop(q, "options") = JUndef)

\* C20: both builder-format parsers return the questions that are not
\* short_answer, in input order, and undefined, never an empty list, when
\* there is none.
C20_DropsShortAnswerOnly ==
    (parser.fn \in {"transformUploadedQuiz", "transformQuestions"}
         /\ parser.returned /\ ~parser.threw) =>
        /\ parser.result # JArr(<< >>)
        /\ QuizTexts(parser.result) = TextsKept(parser.arg.a, NotShortAnswer)

\* C20 as amended: both builder-format parsers return the questions that
\* are neither short_answer nor multiple_choice without options, in input
\* order, and undefined, never an empty list, when there is none.
C20_DropsUnsupported ==
    (parser.fn \in {"transformUploadedQuiz", "transformQuestions"}
         /\ parser.returned /\ ~parser.threw) =>
        /\ parser.result # JArr(<< >>)
        /\ QuizTexts(parser.result) = TextsKept(parser.arg.a, Supported)

\* a short_answer question followed by a true_false question was parsed:
\* the quiz is the true_false question alone
C20_Witness ==
    /\ parser.fn \in {"transformUploadedQuiz", "transformQuestions"} /\ parser.returned
    /\ Len(parser.arg.a) = 2
    /\ Prop(parser.arg.a[1], "type") = JStr("short_answer")
    /\ Prop(parser.arg.a[2], "type") = JStr("true_false")
    /\ QuizTexts(parser.result) = << Prop(parser.arg.a[2], "text") >>

----------------------------------------------------------------------------
(* The Tour's shape *)

\* the synthetic intro landmark: id 0, no quiz, not gated
IsIntro(l) == l.id = 0 /\ l.quiz = JUndef /\ ~Gated(l)

\* in every environment the Tour loadData produces starts with the intro
EveryLoadStartsWithIntro ==
    \A e \in Envs, now \in NowValues :
        Len(loadData(e, now)) > 0 /\ IsIntro(loadData(e, now)[1])

\* C21: once loading is over, index 0 of the Tour is the synthetic intro
\* landmark (id 0, no quiz, never gated), after the load of every
\* environment and after every upload
C21_IntroAtIndexZero ==
    /\ loadPc = "done" => Len(landmarks) > 0 /\ IsIntro(landmarks[1])
    /\ EveryLoadStartsWithIntro

\* an uploaded Tour is on screen, behind the intro
C21_Witness ==
    /\ Rendered /\ Len(landmarks) > 1
    /\ landmarks # baseLandmarks
    /\ landmarks[2].name = JStr("Alpha")
    /\ IsIntro(landmarks[1])

\* the ids of the Tour, in order
TourIds == [k \in 1 .. Len(landmarks) |-> landmarks[k].id]

\* C22: the ids of the landmarks of the Tour are pairwise distinct and no
\* landmark other than the one at index 0 has id 0, whatever ids the
\* overlay store or an uploaded file carry
C22_DistinctIds ==
    loadPc = "done" =>
        /\ \A i, j \in 1 .. Len(landmarks) : i # j => TourIds[i] # TourIds[j]
        /\ \A i \in 2 .. Len(landmarks) : TourIds[i] # 0

----------------------------------------------------------------------------
(* InsertAndFocus *)

\* a click on the map at coords opens the add-landmark dialog for coords
MapClickOpensDialog(coords) ==
    ENABLED (HandleMapClick(coords) /\ modalInfo' = [isOpen |-> TRUE, coords |-> coords])

\* saving the open dialog appends one landmark at the end of the Tour, adds
\* it to the store and puts both indices on its position
SaveAppendsAndFocuses(name, now) ==
    ENABLED (/\ HandleSaveLandmark(name, now)
             /\ Len(landmarks') = Len(landmarks) + 1
             /\ SubSeq(landmarks', 1, Len(landmarks)) = landmarks
             /\ landmarks'[Len(landmarks')].name = name
             /\ storeAdded' = Append(storeAdded, landmarks'[Len(landmarks')])
             /\ sidebarIndex' = Len(landmarks) /\ activeIndex' = Len(landmarks))

SaveOffered ==
    ENABLED (\E name \in DialogNames, now \in NowValues : HandleSaveLandmark(name, now))

SavedLandmarks ==
    { Landmark(now, name, coords, JUndef, JUndef) :
        now \in NowValues, name \in {n \in DialogNames : Trim(n.s) # ""},
        coords \in ClickCoords }

\* the records of the store, when it holds the JSON text of an array
StoreItems(store) ==
    IF store.kind = "text" /\ JsonParse(store.text).ok /\ IsArray(JsonParse(store.text).v)
    THEN {JsonParse(store.text).v.a[k] : k \in 1 .. Len(JsonParse(store.text).v.a)}
    ELSE {}

\* landmark l was saved to the store
InStore(l, store) == SavedRecord(l.id, l.name, l.coords) \in StoreItems(store)

\* the Tour holds a landmark with the id, name and coords of l
InTour(l) ==
    \E k \in 1 .. Len(landmarks) :
        /\ landmarks[k].id = l.id
        /\ landmarks[k].name = l.name
        /\ landmarks[k].coords = l.coords

\* C24: a custom landmark saved to the overlay store by handleSaveLandmark
\* is, after every load, in the Tour with the id, name and coords it was
\* saved with
C24_SavedLandmarkRoundTrips ==
    loadPc = "done" =>
        \A l \in SavedLandmarks : InStore(l, Stores[env.store]) => InTour(l)

\* the same for the loads whose base Tour is not the remote artifact
C24_RoundTripsWithoutRemote ==
    loadPc = "done" /\ ~RemoteAttempt(env).v.loaded =>
        \A l \in SavedLandmarks : InStore(l, Stores[env.store]) => InTour(l)

\* a saved landmark came back from the store
C24_Reloaded ==
    /\ loadPc = "done"
    /\ \E l \in SavedLandmarks : InStore(l, Stores[env.store]) /\ InTour(l)

----------------------------------------------------------------------------
(* Loader: error handling *)

\* localStorage 'locations' holds a text JSON.parse rejects
Unparsable(store) ==
    store.kind = "text" /\ store.text # "" /\ ~JsonParse(store.text).ok

\* C25: when the overlay store holds unparsable data it is treated as an
\* empty overlay: loadData does not fail, and the Tour it leaves is the
\* selected base Tour with nothing appended
C25_CorruptStoreIsEmptyOverlay ==
    Unparsable(Stores[env.store]) =>
        /\ loadPc # "rejected"
        /\ loadPc = "done" =>
               /\ ~isLoading
               /\ landmarks = baseLandmarks
               /\ Len(landmarks) > 0

\* the overlay step met an unparsable store and the base Tour is on screen
C25_Witness ==
    /\ loadPc = "done" /\ ~isLoading
    /\ Unparsable(Stores[env.store])
    /\ ~RemoteAttempt(env).v.loaded
    /\ landmarks = baseLandmarks /\ Len(landmarks) > 1

\* a session parameter is in the query string, with a non-empty value
Present(v) == v # JNull /\ v # JStr("")

\* token, artifact_id and base_url are all present and non-empty, base_url
\* still so without one trailing slash
AllPresent(query) ==
    /\ Present(query.token)
    /\ Present(query.artifact_id)
    /\ Present(query.base_url) /\ query.base_url # JStr("/")

\* C26: the remote-artifact fetch is attempted if and only if token,
\* artifact_id and base_url (after stripping one trailing slash) are all
\* present and non-empty; with any of them missing loadData goes directly
\* to the dataset step
C26_FetchIffParams ==
    /\ [](loadPc = "fetching" => AllPresent(Queries[env.query]))
    /\ [][LoadStart =>
            IF AllPresent(Queries[env.query])
            THEN loadPc' = "fetching" ELSE loadPc' = "dataset"]_vars

\* a base_url that is only a slash: all three parameters are in the query
\* string and loadData is at the dataset step without having fetched
C26_Witness ==
    /\ loadPc = "dataset"
    /\ Present(Queries[env.query].token) /\ Present(Queries[env.query].artifact_id)
    /\ Queries[env.query].base_url = JStr("/")

----------------------------------------------------------------------------
(* Quiz submission *)

\* the call of submitQuizResults has settled
Submitted == parser.fn = "submitQuizResults" /\ parser.returned

\* C27: quiz submission never throws: it returns false when a session
\* parameter is missing, when the request fails, or when the response is
\* non-2xx, and returns true only when the response is 2xx
C27_SubmissionNeverThrows ==
    Submitted =>
        /\ ~parser.threw
        /\ parser.result \in {JBool(TRUE), JBool(FALSE)}
        /\ ~AllPresent(Queries[env.query]) => parser.result = JBool(FALSE)
        /\ parser.arg.outcome.kind = "networkError" => parser.result = JBool(FALSE)
        /\ parser.arg.outcome.status \notin 200 .. 299 => parser.result = JBool(FALSE)
        /\ parser.result = JBool(TRUE) =>
               /\ parser.arg.outcome.kind = "response"
               /\ parser.arg.outcome.status \in 200 .. 299

\* with all session parameters present the request failed and the call
\* returned false
C27_Witness ==
    /\ Submitted /\ ~parser.threw
    /\ AllPresent(Queries[env.query])
    /\ parser.arg.outcome.kind = "networkError"
    /\ parser.result = JBool(FALSE)

\* the call returned true
C27_Accepted == Submitted /\ parser.result = JBool(TRUE)

\* a dataset row the dataset coercer accepts
AcceptedRow(item) ==
    item.t = "object" /\ TwoFiniteCoords(Prop(item, "coordinates"))

\* the dataset API gives rows of which at least one is accepted
DatasetContributes(e) ==
    /\ Datasets[e.dataset].kind = "rows"
    /\ IsArray(Datasets[e.dataset].rows)
    /\ \E i \in 1 .. Len(Datasets[e.dataset].rows.a) :
           AcceptedRow(Datasets[e.dataset].rows.a[i])

\* C28: whenever neither the remote artifact nor the dataset contributes
\* at least one accepted landmark (a dataset whose rows are all rejected
\* included), the base Tour loadData selects is the built-in fallback
\* Tour: no loaded Tour is poorer than the intro followed by the built-in
\* landmarks
C28_PoorestTourIsFallback ==
    (loadPc = "done" /\ ~RemoteAttempt(env).v.loaded /\ ~DatasetContributes(env)) =>
        baseLandmarks = FALLBACK_LANDMARKS

\* the same, for everything but a non-empty dataset whose rows are all
\* rejected
C28_FallbackUnlessAllRejected ==
    (/\ loadPc = "done" /\ ~RemoteAttempt(env).v.loaded /\ ~DatasetContributes(env)
     /\ ~(IsArray(Datasets[env.dataset].rows) /\ Len(Datasets[env.dataset].rows.a) > 0)) =>
        baseLandmarks = FALLBACK_LANDMARKS

----------------------------------------------------------------------------
(* Transitions *)

\* a transition to index t has been started and has not yet swapped the
\* sidebar
InFlight(t) ==
    /\ Rendered /\ isTransitioning
    /\ \E k \in 1 .. Len(timers) : timers[k].kind = "swap" /\ timers[k].idx = t

\* the app is at rest on index t
AtRest(t) == ~isTransitioning /\ sidebarIndex = t /\ activeIndex = t

\* C29: every transition that is started eventually finishes: after an
\* accepted Next, Previous or JumpTo, with no Tour replacement in between,
\* isTransitioning eventually returns to false with the sidebar index and
\* the active index both equal to the transition's target
C29_TransitionsFinish ==
    \A t \in 0 .. 3 : InFlight(t) ~> AtRest(t)

\* a step that starts a transition: it schedules the transition's pair of
\* timers
StartsTransition == Len(timers') > Len(timers)

\* C30: at most one visual transition is in flight at any time: under
\* every interleaving of Next, Previous, JumpTo, quiz completion and timer
\* expiry, a transition (and its pair of timers) is never started while
\* the timers of an earlier transition are still pending
C30_OneTransitionInFlight ==
    [][StartsTransition => timers = << >>]_vars

----------------------------------------------------------------------------
(* Upload *)

\* C31: a successful upload replaces the whole Tour by the intro followed
\* by the accepted records in file order (nothing of the previous Tour is
\* left) and sets both the sidebar index and the active index to 1, the
\* first uploaded landmark
C31_UploadReplacesTour ==
    [][\A f \in DOMAIN UploadFiles, now \in NowValues :
           (HandleFileChange(f, now) /\ ~NoValidRecord(f)) =>
               /\ landmarks'[1] = INTRO_LANDMARK
               /\ NamesOf(landmarks') =
                      << INTRO_LANDMARK.name >> \o UsableNames("upload", UploadFiles[f].data.a)
               /\ sidebarIndex' = 1 /\ activeIndex' = 1]_vars

\* an uploaded Tour has replaced a loaded Tour that was longer, and the
\* position is on its first landmark
C31_Witness ==
    /\ Rendered /\ Len(baseLandmarks) > 2
    /\ Len(landmarks) = 2 /\ landmarks[2].name = JStr("Solo")
    /\ sidebarIndex = 1 /\ activeIndex = 1

----------------------------------------------------------------------------
(* Positions *)

\* C32: once loading is over, under every interleaving of navigation
\* intents, timer expiry, quiz completion and upload, the sidebar index and
\* the active index are positions of the current Tour:
\* 0 <= index < Len(landmarks)
C32_IndicesInRange ==
    loadPc = "done" =>
        /\ InRange(landmarks, sidebarIndex)
        /\ InRange(landmarks, activeIndex)

\* the same in a session without uploads
C32_InRangeWithoutUpload ==
    loadPc = "done" =>
        /\ InRange(landmarks, sidebarIndex)
        /\ InRange(landmarks, activeIndex)
        /\ landmarks = loadData(env, 1001)

----------------------------------------------------------------------------
(* The QuizGate, on every accepted quiz *)

GateOpen == Rendered /\ quizModalInfo.isOpen /\ Len(quizModalInfo.questions) > 0

\* the step of the dialog that brings the open QuizGate nearer to its
\* results view: select an option, then check it, then go on
DialogCanAdvance ==
    IF quizModal.isAnswered THEN ENABLED QuizHandleNext
    ELSE IF quizModal.selectedOptionIndex # -1 THEN ENABLED CheckAnswer
    ELSE \E index \in 0 .. 1 : ENABLED HandleOptionSelect(index)

\* C33: an open QuizGate can always be completed: in every state of the
\* dialog of an accepted quiz either completion can be signalled (the results
\* view is shown) or the select / check / next step that leads towards it
\* can be taken.
C33_GateCanBeCompleted ==
    GateOpen => (quizModal.showResults \/ DialogCanAdvance)

\* a QuizGate stuck on a question that offers no option
C33_Stuck ==
    /\ GateOpen /\ ~quizModal.showResults
    /\ Len(CurrentOptions) = 0

\* C34: when quiz completion fires, the deferred Next goes to (current
\* sidebar index + 1) mod (current Tour length), the sidebar index and the
\* Tour being those of the moment of completion, whatever upload, Previous
\* or JumpTo took effect while the QuizGate was open.
C34_CompletionUsesCurrentState ==
    [][QuizComplete =>
           /\ activeIndex' = NextIndex(sidebarIndex, Len(landmarks))
           /\ \E k \in 1 .. Len(timers') :
                  /\ timers'[k].kind = "swap" /\ timers'[k].due = SlideDuration
                  /\ timers'[k].idx = NextIndex(sidebarIndex, Len(landmarks))]_vars

----------------------------------------------------------------------------
(* The two builder-format parsers *)

\* C35: the two builder-format quiz parsers agree: on every list of builder
\* questions, transformUploadedQuiz (the upload path) and transformQuestion
\* as transformBuilderDataToLandmarks applies it (the remote-artifact path)
\* return the same quiz, or both return no quiz.
C35_BuilderParsersAgree ==
    /\ (parser.fn = "transformUploadedQuiz" /\ parser.returned) =>
           /\ ~parser.threw /\ ~transformQuestions(parser.arg).threw
           /\ parser.result = transformQuestions(parser.arg).v
    /\ (parser.fn = "transformQuestions" /\ parser.returned) =>
           /\ ~parser.threw
           /\ parser.result = transformUploadedQuiz(parser.arg)

\* C35 without the marks: the two parsers keep the same questions, with the
\* same texts, types and option texts
C35_SameQuestionsKept ==
    (parser.fn = "transformUploadedQuiz" /\ parser.returned) =>
        LET other == transformQuestions(parser.arg) IN
          /\ ~other.threw
          /\ QuizTexts(parser.result) = QuizTexts(other.v)

----------------------------------------------------------------------------
(* Inside the quiz dialog *)

\* the questions of the open dialog that have been checked
QuestionsChecked ==
    IF quizModal.showResults THEN Len(quizModalInfo.questions)
    ELSE quizModal.currentQ + (IF quizModal.isAnswered THEN 1 ELSE 0)

\* QuizModal has a quiz to show
DialogOpen == quizModalInfo.isOpen /\ Len(quizModalInfo.questions) > 0

\* C36: inside the quiz dialog the current question index lies in
\* 0..len-1, the score never exceeds the number of questions checked, a
\* question adds at most 1 to the score, and completion can be signalled
\* only after every question of the quiz was selected and checked, in order.
C36_DialogInvariant ==
    /\ [](DialogOpen =>
            /\ quizModal.currentQ \in 0 .. Len(quizModalInfo.questions) - 1
            /\ quizModal.score <= QuestionsChecked
            /\ quizModal.isAnswered => quizModal.selectedOptionIndex # -1
            /\ (ENABLED QuizComplete) =>
                   /\ quizModal.showResults
                   /\ quizModal.currentQ = Len(quizModalInfo.questions) - 1)
    /\ [][/\ CheckAnswer => /\ quizModal.selectedOptionIndex # -1
                            /\ quizModal'.score \in {quizModal.score, quizModal.score + 1}
          /\ quizModal'.score > quizModal.score => CheckAnswer
          /\ QuizHandleNext =>
                 /\ quizModal.isAnswered
                 /\ IF quizModal'.showResults
                    THEN quizModal.currentQ = Len(quizModalInfo.questions) - 1
                    ELSE quizModal'.currentQ = quizModal.currentQ + 1
          /\ (quizModal'.showResults /\ ~quizModal.showResults) => QuizHandleNext
          /\ (quizModal'.currentQ # quizModal.currentQ) =>
                 (QuizHandleNext \/ quizModal' = FreshQuizModal)
          /\ (DialogOpen' /\ quizModalInfo'.questions # quizModalInfo.questions) =>
                 ~quizModal'.showResults]_vars

\* a quiz of two questions was answered to its end, the first question
\* right and the second wrong: completion can be signalled
C36_Witness ==
    /\ GateOpen /\ quizModal.showResults
    /\ Len(quizModalInfo.questions) = 2
    /\ quizModal.currentQ = 1 /\ quizModal.score = 1

----------------------------------------------------------------------------
(* Openings of the QuizGate *)

\* Next is pressed on a gated landmark
NextFromGated == SidebarNext /\ CurrentGated

\* the QuizGate is open on the quiz of the landmark the sidebar shows, at
\* question 0, nothing selected or checked, score 0
OpenedAfresh ==
    /\ Rendered'
    /\ quizModalInfo'.isOpen
    /\ quizModalInfo'.questions = At(landmarks, sidebarIndex).quiz.a
    /\ quizModal' = FreshQuizModal
    /\ UNCHANGED << sidebarIndex, activeIndex, isTransitioning >>

\* C37: gating is enforced on every forward departure: each Next from a
\* gated landmark opens the QuizGate afresh, at question 0 with score 0,
\* also when a quiz was completed earlier; no answer, score or result is
\* carried over from an earlier opening. (A Next that finds the gate open
\* on the same questions is the repeated Next of C1 and opens nothing.)
C37_GateOpensAfresh ==
    [][(NextFromGated
            /\ ~(quizModalInfo.isOpen
                   /\ quizModalInfo.questions = At(landmarks, sidebarIndex).quiz.a))
           => OpenedAfresh]_vars

\* C37 for a Next that finds the QuizGate closed
C37_ClosedGateOpensAfresh ==
    [][(NextFromGated /\ ~quizModalInfo.isOpen) => OpenedAfresh]_vars

----------------------------------------------------------------------------
(* What navigation leaves alone *)

\* a navigation step: Next, Previous, a marker click, quiz completion, a
\* timer callback or the passing of time up to one
NavigationStep ==
    \/ SidebarNext
    \/ SidebarPrev
    \/ \E id \in MarkerIds : MarkerClick(id)
    \/ QuizComplete
    \/ FireTimer
    \/ Tick

UploadStep == \E f \in DOMAIN UploadFiles, now \in NowValues : HandleFileChange(f, now)

AcceptedUploadStep ==
    \E f \in DOMAIN UploadFiles, now \in NowValues :
        HandleFileChange(f, now) /\ ~NoValidRecord(f)

\* C38: navigation never mutates data: Next, Previous, JumpTo, timer expiry
\* and quiz completion leave the Tour and the overlay store unchanged, an
\* upload, accepted or rejected, leaves the overlay store unchanged, and the
\* Tour changes only by a step of the load or by an accepted upload (the
\* insert is never issued, C23).
C38_NavigationKeepsData ==
    [][/\ NavigationStep => UNCHANGED << landmarks, baseLandmarks, env, storeAdded >>
       /\ UploadStep => UNCHANGED << env, storeAdded >>
       /\ (landmarks' # landmarks) => (LoadNext \/ AcceptedUploadStep)
       /\ UNCHANGED << env, storeAdded >>]_vars

\* a quiz was completed and the slide that followed has ended on the Tour
\* as it was loaded
C38_Witness ==
    /\ loadPc = "done" /\ Rendered
    /\ ~quizModalInfo.isOpen /\ quizModal.showResults
    /\ ~isTransitioning /\ sidebarIndex = 2
    /\ landmarks = loadData(env, 1001)
    /\ Len(landmarks) > 2

====
